---------------------------- MODULE Spec2Model ----------------------------
(***************************************************************************)
(* repond-events: chains of live events run on top of the repond reactive   *)
(* store.  The model follows the store's frame cycle:                       *)
(*   - setState / addItem / removeItem / whenSettingStates called outside   *)
(*     the set-state phase are queued (setStatesQueue) and applied in order *)
(*     by the next loop of the "eventUpdates" step;                         *)
(*   - after the queue has been applied, the effects whose check matches    *)
(*     the difference with the previous loop run, one TLA+ action each;     *)
(*   - onNextTick callbacks run at the end of the frame;                    *)
(*   - the continuation of runEventHandler after its await runs as a        *)
(*     microtask once the frame has returned.                               *)
(***************************************************************************)
EXTENDS Integers, Sequences, FiniteSets, TLC

(***************************************************************************)
(* Bounds of the model                                                      *)
(***************************************************************************)
MaxEvents == 4        \* live events created in one behaviour
MaxTicks == 2         \* elapsed-time updates made by the host in one behaviour
MaxCalls == 3         \* public API calls made by the host in one behaviour
MaxResumeCalls == 4   \* public API calls in a behaviour of SpecResume
MaxResumeTicks == 1   \* elapsed-time updates in a behaviour of SpecResume
MaxResumeEvents == 3  \* live events the host creates in a behaviour of SpecResume
MaxPauseCalls == 3    \* the calls of SpecPause: runEvents, pause, unpause
MaxPauseEvents == 1   \* live events the host creates in a behaviour of SpecPause
MaxPauseTicks == 6    \* elapsed-time updates in a behaviour of SpecPause
MaxSkew == 1          \* how far Date.now() may run ahead of the elapsed time in SpecPause
MaxSubCalls == 2      \* the calls of SpecSub: runEvents, chainDo
MaxSubEvents == 2     \* live events the host creates in a behaviour of SpecSub
MaxSubTicks == 3      \* elapsed-time updates in a behaviour of SpecSub
MaxValueCalls == 1    \* the calls of SpecValue: runEvents
MaxValueEvents == 2   \* live events the host creates in a behaviour of SpecValue
MaxValueTicks == 3    \* elapsed-time updates in a behaviour of SpecValue
MaxSkipCalls == 2     \* the calls of SpecSkip: runEvents, skipToEvent
MaxSkipEvents == 3    \* live events the host creates in a behaviour of SpecSkip
MaxSkipTicks == 3     \* elapsed-time updates in a behaviour of SpecSkip
MaxPriorityCalls == 2 \* the calls of SpecPriority: runEvents, runPriorityEvents
MaxPriorityEvents == 5 \* live events the host creates in a behaviour of SpecPriority
MaxPriorityTicks == 2 \* elapsed-time updates in a behaviour of SpecPriority
MaxDuplicateCalls == 3 \* the calls of SpecDuplicate: runEvents, then runEvents with a used liveId
MaxDuplicateEvents == 2 \* live ids the host makes up in a behaviour of SpecDuplicate
MaxDuplicateTicks == 2 \* elapsed-time updates in a behaviour of SpecDuplicate
MaxRunEventCalls == 2 \* the calls of SpecRunEvent: runEvent, runEvent
MaxRunEventEvents == 2 \* live ids the host makes up in a behaviour of SpecRunEvent
MaxRunEventTicks == 2 \* elapsed-time updates in a behaviour of SpecRunEvent
MaxVariableCalls == 5 \* the calls of SpecVariable: two runEvents and setVariable calls
MaxVariableEvents == 2 \* live events the host creates in a behaviour of SpecVariable
MaxVariableTicks == 1 \* elapsed-time updates in a behaviour of SpecVariable
MaxReturnCalls == 1   \* the calls of SpecReturn: runEvents
MaxReturnEvents == 2  \* live events the host creates in a behaviour of SpecReturn
MaxReturnTicks == 3   \* elapsed-time updates in a behaviour of SpecReturn
MaxValueDepth == 2    \* how deep the values of a params map given to evaluateParams nest
MaxUnregisteredCalls == 1  \* the calls of SpecUnregistered: runEvents
MaxUnregisteredEvents == 2 \* live events the host creates in a behaviour of SpecUnregistered
MaxUnregisteredTicks == 3  \* elapsed-time updates in a behaviour of SpecUnregistered
MaxFreezeCalls == 4   \* the calls of SpecFreeze: runEvents, then eventDo
MaxFreezeEvents == 2  \* live events the host creates in a behaviour of SpecFreeze
MaxFreezeTicks == 2   \* elapsed-time updates in a behaviour of SpecFreeze
MaxFreezeSkew == 1    \* how far Date.now() runs ahead in a behaviour of SpecFreeze
MaxActiveLen == 4     \* the longest queue given to getActiveEventIds in SpecActive
MaxOptionsCalls == 3  \* the calls of SpecOptions: runEvents, then runEvents with options
MaxOptionsEvents == 3 \* live events the host creates in a behaviour of SpecOptions
MaxOptionsTicks == 2  \* elapsed-time updates in a behaviour of SpecOptions
MaxSequenceCalls == 5  \* the calls of SpecSequence: runEvents, then four eventDo
MaxSequenceEvents == 1 \* live events the host creates in a behaviour of SpecSequence
MaxSequenceTicks == 2  \* elapsed-time updates in a behaviour of SpecSequence
MaxSequenceSkew == 1   \* how far Date.now() runs ahead in a behaviour of SpecSequence
MaxAllCalls == 3       \* the calls of SpecAll: runEvents, then allEventsDo or allGroupEventsDo
MaxAllEvents == 3      \* live events the host creates in a behaviour of SpecAll
MaxAllTicks == 2       \* elapsed-time updates in a behaviour of SpecAll
MaxNestedCalls == 2    \* the calls of SpecNested: runEvents, then eventDo or chainDo
MaxNestedEvents == 1   \* live events the host creates in a behaviour of SpecNested
MaxNestedTicks == 2    \* elapsed-time updates in a behaviour of SpecNested
MaxFastCalls == 3      \* the calls of SpecFast: runEvents with or without isFast, cancelFastChain
MaxFastEvents == 1     \* live events the host creates in a behaviour of SpecFast
MaxFastTicks == 1      \* elapsed-time updates in a behaviour of SpecFast

(***************************************************************************)
(* Program constants                                                        *)
(***************************************************************************)
DurationScale == 1000
GoalEndTimeDefault == 0

Infinity == 100000    \* stands for the IEEE Infinity written to goalEndTime
NullTime == 0 - 1     \* stands for null in the timestamp fields
NullDuration == 0 - 1 \* stands for a null duration
Undefined == 0 - 7    \* stands for undefined as a resolved value
DateBase == 50 + 0    \* Date.now() when the program starts; any positive number
NoPromise == 0 - 2     \* the parameters hold no promise
Null == "null"        \* stands for null in the run-mode fields and id fields

\* live ids given by the host in options.liveId, in the order the host uses them
LiveIdOf == <<"e1", "e2", "e3", "e4", "e5", "e6">>
\* live ids made by _makeLiveIdFromEventBlock, in the order they are made
GenIdOf == <<"g1", "g2", "g3", "g4", "g5", "g6", "g7", "g8">>
\* the chain the host passes in options.chainId
DefaultChain == "c"
\* a second chain the host may name in options.chainId
OtherChain == "d"
\* `${valueIdBase}.${key}` for the one parameter p of an event
ValueIdOf(liveId) ==
    CASE liveId = "e1" -> "e1.p" [] liveId = "e2" -> "e2.p" [] liveId = "e3" -> "e3.p"
      [] liveId = "e4" -> "e4.p" [] liveId = "e5" -> "e5.p" [] liveId = "e6" -> "e6.p"
      [] OTHER -> "g.p"
\* the order in which item effects visit the items of a store
ItemOrder ==
    <<"c", "d">> \o LiveIdOf \o GenIdOf \o <<"e1.p", "e2.p", "e3.p", "e4.p", "e5.p", "e6.p", "g.p">>

Plus(a, b) == IF a = Infinity \/ b = Infinity THEN Infinity ELSE a + b
Minus(a, b) == IF a = Infinity THEN Infinity ELSE a - b

RECURSIVE SeqFilterOut(_, _)
SeqFilterOut(s, x) ==
    IF s = <<>> THEN <<>>
    ELSE IF Head(s) = x THEN SeqFilterOut(Tail(s), x)
         ELSE <<Head(s)>> \o SeqFilterOut(Tail(s), x)

SeqRange(s) == {s[i] : i \in 1..Len(s)}

IndexOf(s, x) == IF x \in SeqRange(s) THEN CHOOSE i \in 1..Len(s) : s[i] = x /\ \A j \in 1..(i-1) : s[j] # x ELSE 0

Has(f, k) == k \in DOMAIN f

(***************************************************************************)
(* Records of the two stores (stores/liveEvents.ts, stores/chains.ts)       *)
(***************************************************************************)
\* An event block: the event type, its options and its parameters.  d is the
\* duration parameter of wait, v the value parameter of returnValue, prog names
\* the events a host handler or a getEventValue parameter launches.
Block(name, isParallel, duration, d, v, prog, liveId) ==
    [name |-> name, isParallel |-> isParallel, duration |-> duration,
     d |-> d, v |-> v, prog |-> prog, liveId |-> liveId]

_makeLiveEventStateFromEvent(liveId, chainId, parentChainId, b, nowTime) ==
    [id |-> liveId, nowRunMode |-> "add", isParallel |-> b.isParallel,
     duration |-> b.duration, chainId |-> chainId, parentChainId |-> parentChainId,
     event |-> b, evaluated |-> FALSE, evaluatedP |-> Undefined,
     addTime |-> nowTime, startTime |-> NullTime, pauseTime |-> NullTime,
     unpauseTime |-> NullTime, suspendTime |-> NullTime, unsuspendTime |-> NullTime,
     goalEndTime |-> GoalEndTimeDefault, runModeOptionsWhenReady |-> Null,
     runModeBeforePause |-> Null, runModeBeforeSuspend |-> Null]

\* a new chain that may activate its events whatever it was created for
newChainStateAutoActivating(chainId, canAutoActivate, parentChainId) ==
    [id |-> chainId, liveEventIds |-> <<>>, canAutoActivate |-> TRUE,
     parentChainId |-> parentChainId, duplicateEventsToAdd |-> <<>>,
     variablesByName |-> <<>>]

newChainState(chainId, canAutoActivate, parentChainId) ==
    [id |-> chainId, liveEventIds |-> <<>>, canAutoActivate |-> canAutoActivate,
     parentChainId |-> parentChainId, duplicateEventsToAdd |-> <<>>,
     variablesByName |-> <<>>]

\* f with the fields of the partial record p written over it
Merge(f, p) == [k \in DOMAIN f |-> IF k \in DOMAIN p THEN p[k] ELSE f[k]]

\* setState on one item: ignored when the item is not in the store
SetLive(st, id, p) ==
    IF Has(st.liveEvents, id)
    THEN [st EXCEPT !.liveEvents = [st.liveEvents EXCEPT ![id] = Merge(@, p)]]
    ELSE st

SetChain(st, id, p) ==
    IF Has(st.chains, id)
    THEN [st EXCEPT !.chains = [st.chains EXCEPT ![id] = Merge(@, p)]]
    ELSE st

Put(f, k, v) == [x \in DOMAIN f \cup {k} |-> IF x = k THEN v ELSE f[x]]
Drop(f, k) == [x \in DOMAIN f \ {k} |-> f[x]]

Op(kind, id, a) == [kind |-> kind, id |-> id, a |-> a]

\* getItemWillExist: the item is being added, or exists and is not being removed
getItemWillExist(st, q, type, id) ==
    \/ \E i \in 1..Len(q) : q[i].kind = "addItem" /\ q[i].a.type = type /\ q[i].id = id
    \/ /\ Has(st[type], id)
       /\ ~\E i \in 1..Len(q) : q[i].kind = "removeItem" /\ q[i].a.type = type /\ q[i].id = id

(***************************************************************************)
(* internal.ts: the pure helpers over the state                            *)
(***************************************************************************)
getElapsedTime(st) == st.elapsedTime

\* the chain named in the record of the live event, whether or not its
\* queue still holds the event
getChainIdFromLiveEventRecord(st, liveId) ==
    IF Has(st.liveEvents, liveId) /\ Has(st.chains, st.liveEvents[liveId].chainId)
    THEN st.liveEvents[liveId].chainId
    ELSE Null

getChainIdFromLiveEventId(st, liveId) ==
    IF \E c \in DOMAIN st.chains : liveId \in SeqRange(st.chains[c].liveEventIds)
    THEN CHOOSE c \in DOMAIN st.chains : liveId \in SeqRange(st.chains[c].liveEventIds)
    ELSE Null

\* stands for every group: the targets are all the live events of the store
AllGroups == "*"

\* event.group of an event block: the host registers the log events in one
\* group and the other event types in another
GroupOf(b) == IF b.name = "log" THEN "logs" ELSE "others"

\* internal.ts 64-67; AllGroups gives Object.keys(state.liveEvents)
getLiveIdsForGroup(st, group) ==
    SelectSeq(ItemOrder,
              LAMBDA l : /\ l \in DOMAIN st.liveEvents
                         /\ (group = AllGroups \/ GroupOf(st.liveEvents[l].event) = group))

getLiveEventsIdsUpToLiveEventId(st, liveId) ==
    LET chainId == getChainIdFromLiveEventId(st, liveId) IN
    IF chainId = Null THEN <<>>
    ELSE LET liveIds == st.chains[chainId].liveEventIds
             eventIndex == IndexOf(liveIds, liveId)
         IN  SubSeq(liveIds, 1, eventIndex)

\* nowRunMode === "add" of a possibly missing live event
CanStart(st, id) == Has(st.liveEvents, id) /\ st.liveEvents[id].nowRunMode = "add"
IsPar(st, id) == Has(st.liveEvents, id) /\ st.liveEvents[id].isParallel

\* the loop of findFirstNonActiveEventIndex taking in the non-parallel event
\* in "add" at which it stops
RECURSIVE FirstNonActiveFromIncluding(_, _, _)
FirstNonActiveFromIncluding(st, ids, i) ==
    IF i >= Len(ids) THEN Len(ids)
    ELSE LET id == ids[i + 1] IN
         IF ~Has(st.liveEvents, id) \/ (IsPar(st, id) /\ ~CanStart(st, id)) THEN i
         ELSE IF ~IsPar(st, id) /\ CanStart(st, id) THEN i + 1
         ELSE FirstNonActiveFromIncluding(st, ids, i + 1)

\* the loop of findFirstNonActiveEventIndex, 0-based index i as in the source
RECURSIVE FirstNonActiveFrom(_, _, _)
FirstNonActiveFrom(st, ids, i) ==
    IF i >= Len(ids) THEN Len(ids)
    ELSE LET id == ids[i + 1] IN
         IF \/ ~Has(st.liveEvents, id)
            \/ (~IsPar(st, id) /\ CanStart(st, id))
            \/ (IsPar(st, id) /\ ~CanStart(st, id))
         THEN i
         ELSE FirstNonActiveFrom(st, ids, i + 1)

findFirstNonActiveEventIndex(st, ids) ==
    IF Len(ids) = 0 THEN 0
    ELSE LET first == ids[1] IN
         IF (~Has(st.liveEvents, first) \/ ~IsPar(st, first)) /\ CanStart(st, first) THEN 1
         ELSE IF ~CanStart(st, first) THEN 0
         ELSE FirstNonActiveFrom(st, ids, 1)

getActiveEventIds(st, ids) ==
    LET index == findFirstNonActiveEventIndex(st, ids) IN
    IF index = 0 THEN <<>> ELSE SubSeq(ids, 1, index)

getInsertEventIdsAfterActive(st, ids, newEventIds) ==
    LET index == findFirstNonActiveEventIndex(st, ids) IN
    SubSeq(ids, 1, index) \o newEventIds \o SubSeq(ids, index + 1, Len(ids))


\* The live ids _getStatesToRunEventsInMode writes to: the targets that are in a
\* chain's queue, plus the queue of every chain whose id is one of the targets
\* (its sub-chain); the empty set where the source returns {}.
_getStatesToRunEventsInMode(st, q, chainId, hasTargets, targets) ==
    LET chainGiven == chainId # Null
        allFoundLiveIds ==
            IF hasTargets THEN targets
            ELSE IF chainGiven /\ Has(st.chains, chainId) THEN st.chains[chainId].liveEventIds
            ELSE <<>>
        noLiveEventIds == chainGiven /\ ~hasTargets /\ ~Has(st.chains, chainId)
        noChainFound ==
            ~chainGiven /\ hasTargets
            /\ \E l \in SeqRange(targets) : getChainIdFromLiveEventId(st, l) = Null
        foundSubChains == {l \in SeqRange(allFoundLiveIds) : getItemWillExist(st, q, "chains", l)}
        noSubChainLiveIds == \E s \in foundSubChains : ~Has(st.chains, s)
        inTargetChain(l) ==
            IF chainGiven THEN Has(st.chains, chainId) /\ l \in SeqRange(st.chains[chainId].liveEventIds)
            ELSE getChainIdFromLiveEventId(st, l) # Null
        \* a chain that is also in foundSubChains has its entry overwritten by its whole queue
        ofTargets == {l \in SeqRange(allFoundLiveIds) :
                         /\ inTargetChain(l)
                         /\ LET c == IF chainGiven THEN chainId ELSE getChainIdFromLiveEventId(st, l)
                            IN  c \notin foundSubChains}
        ofSubChains == UNION {SeqRange(st.chains[s].liveEventIds) : s \in foundSubChains}
    IN  IF noLiveEventIds \/ noChainFound \/ noSubChainLiveIds THEN {}
        ELSE ofTargets \cup ofSubChains

\* _getStatesToRunEventsInMode writing the run mode each event had before
\* into runModeBeforePause itself, instead of leaving that to the effect
RunEventsInModeRecordingPrevious(st, q, runMode, chainId, hasTargets, targets) ==
    LET ids == _getStatesToRunEventsInMode(st, q, chainId, hasTargets, targets) IN
    [st EXCEPT !.liveEvents =
        [l \in DOMAIN st.liveEvents |->
            IF l \in ids
            THEN Merge(st.liveEvents[l],
                       [nowRunMode |-> runMode,
                        runModeBeforePause |-> st.liveEvents[l].nowRunMode])
            ELSE st.liveEvents[l]]]

\* setState_OLD(state => _getStatesToRunEventsInMode(...)): the partial state merged in
RunEventsInMode(st, q, runMode, chainId, hasTargets, targets) ==
    LET ids == _getStatesToRunEventsInMode(st, q, chainId, hasTargets, targets)
        partial == IF runMode = "skip" THEN [runModeOptionsWhenReady |-> runMode]
                   ELSE [nowRunMode |-> runMode]
    IN  [st EXCEPT !.liveEvents =
            [l \in DOMAIN st.liveEvents |->
                IF l \in ids THEN Merge(st.liveEvents[l], partial) ELSE st.liveEvents[l]]]

\* Object.keys(chainState.duplicateEventsToAdd) read from the record as it
\* was before the setState of the merged map
DuplicateKeysBeforeSet(oldDuplicates, newDuplicates) ==
    {oldDuplicates[i].liveId : i \in 1..Len(oldDuplicates)}

\* internal.ts 519: Object.keys(chainState.duplicateEventsToAdd).  chainState is
\* the store's own record, so the keys read after the setState of line 503 are
\* those of the merged map
DuplicateKeys(oldDuplicates, newDuplicates) ==
    {newDuplicates[i].liveId : i \in 1..Len(newDuplicates)}

\* internal.ts 491-526: the whenSettingStates callback of addTheLiveEvents
SetChainLiveEventIds(st, chainId, a) ==
    IF ~Has(st.chains, chainId) THEN st
    ELSE
    LET chainState == st.chains[chainId]
        nowChainEventIds == chainState.liveEventIds
        newChainEventIds ==
            IF a.hasPriority
            THEN getInsertEventIdsAfterActive(st, nowChainEventIds, a.newLiveIds)
            ELSE nowChainEventIds \o a.newLiveIds
        \* duplicateEventsToAdd is kept as the sequence of the parked blocks
        newDuplicates == chainState.duplicateEventsToAdd \o a.duplicates
        st1 == SetChain(st, chainId, [liveEventIds |-> newChainEventIds,
                                      duplicateEventsToAdd |-> newDuplicates])
        st2 == IF a.isForSubChain THEN SetLive(st1, chainId, [goalEndTime |-> Infinity]) ELSE st1
        reAdd == a.isForSubChain /\ a.parentLiveEventHasNonAddRunMode /\ a.parentLiveEventRunMode # "start"
        st3 == IF reAdd
               THEN [st2 EXCEPT !.liveEvents =
                        [l \in DOMAIN st2.liveEvents |->
                            IF l \in SeqRange(newChainEventIds)
                            THEN Merge(st2.liveEvents[l], [nowRunMode |-> "add"])
                            ELSE st2.liveEvents[l]]]
               ELSE st2
        liveEventsToCancel == DuplicateKeys(chainState.duplicateEventsToAdd, newDuplicates)
    IN  [st3 EXCEPT !.liveEvents =
            [l \in DOMAIN st3.liveEvents |->
                IF l \in liveEventsToCancel
                THEN Merge(st3.liveEvents[l], [nowRunMode |-> "cancel"])
                ELSE st3.liveEvents[l]]]

\* the setState callback of "unpause"/"unsuspend" leaving runModeBeforePause
\* and runModeBeforeSuspend as they are
UnfreezeUpdateKeepingBefore(st, liveId, a) ==
    IF ~Has(st.liveEvents, liveId) THEN st
    ELSE
    LET liveEventState == st.liveEvents[liveId]
        remainingTime == Minus(liveEventState.goalEndTime, liveEventState.pauseTime)
    IN  IF liveEventState.pauseTime = NullTime THEN st
        ELSE SetLive(st, liveId,
                [goalEndTime |-> Plus(getElapsedTime(st), remainingTime),
                 unpauseTime |-> a.nowTime,
                 nowRunMode |-> a.runMode])

\* effects/liveEvents.ts 72-92: the setState callback of "unpause"/"unsuspend"
UnfreezeUpdate(st, liveId, a) ==
    IF ~Has(st.liveEvents, liveId) THEN st
    ELSE
    LET liveEventState == st.liveEvents[liveId]
        goalEndTime == liveEventState.goalEndTime
        pauseTime == liveEventState.pauseTime
        remainingTime == Minus(goalEndTime, pauseTime)
        elapsedTime == getElapsedTime(st)
    IN  IF pauseTime = NullTime THEN st
        ELSE SetLive(st, liveId,
                [goalEndTime |-> Plus(elapsedTime, remainingTime),
                 unpauseTime |-> a.nowTime,
                 nowRunMode |-> a.runMode,
                 runModeBeforePause |->
                     IF a.isUnpausing THEN Null ELSE liveEventState.runModeBeforePause,
                 runModeBeforeSuspend |->
                     IF a.isUnpausing THEN liveEventState.runModeBeforeSuspend ELSE Null])

\* the callback of finalizeEvent leaving the queue of the chain as it is
FinalizeUpdateKeepsQueue(st, liveEventId) == st

\* the callback of finalizeEvent taking the live id off the queue only where it
\* is the last entry
FinalizeUpdateOfLast(st, liveEventId) ==
    IF ~Has(st.liveEvents, liveEventId) THEN st
    ELSE LET chainId == st.liveEvents[liveEventId].chainId IN
         IF ~Has(st.chains, chainId) THEN st
         ELSE LET ids == st.chains[chainId].liveEventIds IN
              IF ids # <<>> /\ ids[Len(ids)] = liveEventId
              THEN SetChain(st, chainId, [liveEventIds |-> SubSeq(ids, 1, Len(ids) - 1)])
              ELSE st

\* internal.ts 224-235: the whenSettingStates callback of finalizeEvent
FinalizeUpdate(st, liveEventId) ==
    IF ~Has(st.liveEvents, liveEventId) THEN st
    ELSE LET chainId == st.liveEvents[liveEventId].chainId IN
         IF ~Has(st.chains, chainId) THEN st
         ELSE SetChain(st, chainId,
                 [liveEventIds |-> SeqFilterOut(st.chains[chainId].liveEventIds, liveEventId)])

\* effects/chains.ts 32-90: the whenSettingStates callback of whenLiveEventIdsChange
ActivateUpdate(st, q, chainId, a) ==
    LET chainExists == Has(st.chains, chainId)
        liveEventIds == IF chainExists THEN st.chains[chainId].liveEventIds ELSE <<>>
        idsToActivate == getActiveEventIds(st, liveEventIds)
        \* getState("events", id) names no store: foundNonAddEvent stays false
        foundNonAddEvent == FALSE
        toActivate == {l \in SeqRange(idsToActivate) : Has(st.liveEvents, l)}
        withSubChain == {l \in toActivate : getItemWillExist(st, q, "chains", l)}
    IN  IF ~a.canAutoActivate /\ ~foundNonAddEvent THEN st
        ELSE IF Len(liveEventIds) = 0
        THEN IF a.isSubChain THEN SetLive(st, chainId, [goalEndTime |-> 0]) ELSE st
        ELSE [st EXCEPT
                !.liveEvents =
                    [l \in DOMAIN st.liveEvents |->
                        IF l \in toActivate
                        THEN IF st.liveEvents[l].runModeOptionsWhenReady # Null
                             THEN Merge(st.liveEvents[l],
                                     [nowRunMode |-> st.liveEvents[l].runModeOptionsWhenReady,
                                      runModeOptionsWhenReady |-> Null])
                             ELSE Merge(st.liveEvents[l], [nowRunMode |-> "start"])
                        ELSE st.liveEvents[l]],
                !.chains =
                    [c \in DOMAIN st.chains |->
                        IF c \in withSubChain
                        THEN Merge(st.chains[c], [canAutoActivate |-> TRUE])
                        ELSE st.chains[c]]]

\* effects/liveEvents.ts 39-45: the parked duplicate of liveId is deleted
ClearDuplicate(st, chainId, liveId) ==
    IF ~Has(st.chains, chainId) THEN st
    ELSE LET d == st.chains[chainId].duplicateEventsToAdd
             keep == {i \in 1..Len(d) : d[i].liveId # liveId}
             RECURSIVE Pick(_)
             Pick(i) == IF i > Len(d) THEN <<>>
                        ELSE IF i \in keep THEN <<d[i]>> \o Pick(i + 1) ELSE Pick(i + 1)
         IN  SetChain(st, chainId, [duplicateEventsToAdd |-> Pick(1)])

\* variableHelpers.ts 17-20: the whenSettingStates callback of setVariable
SetVariableUpdate(st, scope, a) ==
    IF ~Has(st.chains, scope) THEN st
    ELSE SetChain(st, scope,
            [variablesByName |-> Put(st.chains[scope].variablesByName, a.name, a.value)])

\* One queued update applied to the state; rest is what is still queued after it
ApplyOp(st, op, rest) ==
    CASE op.kind = "addItem" ->
            IF op.a.type = "chains"
            THEN [st EXCEPT !.chains = Put(st.chains, op.id, op.a.state)]
            ELSE [st EXCEPT !.liveEvents = Put(st.liveEvents, op.id, op.a.state)]
      [] op.kind = "removeItem" ->
            IF op.a.type = "chains"
            THEN [st EXCEPT !.chains = Drop(st.chains, op.id)]
            ELSE [st EXCEPT !.liveEvents = Drop(st.liveEvents, op.id)]
      [] op.kind = "setLive" -> SetLive(st, op.id, op.a)
      [] op.kind = "setElapsedTime" -> [st EXCEPT !.elapsedTime = op.a.value]
      [] op.kind = "setChainLiveEventIds" -> SetChainLiveEventIds(st, op.id, op.a)
      [] op.kind = "runEventsInMode" ->
            RunEventsInMode(st, rest, op.a.runMode, op.a.chainId, op.a.hasTargets,
                            IF op.a.upTo # Null
                            THEN getLiveEventsIdsUpToLiveEventId(st, op.a.upTo)
                            ELSE IF op.a.ofGroup # Null
                            THEN getLiveIdsForGroup(st, op.a.ofGroup)
                            ELSE op.a.targets)
      [] op.kind = "unfreeze" -> UnfreezeUpdate(st, op.id, op.a)
      [] op.kind = "finalize" -> FinalizeUpdate(st, op.id)
      [] op.kind = "activate" -> ActivateUpdate(st, rest, op.id, op.a)
      [] op.kind = "clearDuplicate" -> ClearDuplicate(st, op.id, op.a.liveId)
      [] op.kind = "setVariable" -> SetVariableUpdate(st, op.id, op.a)

\* runSetStates: the queued updates applied in the order they were queued
RECURSIVE RunQueue(_, _)
RunQueue(st, q) ==
    IF q = <<>> THEN st ELSE RunQueue(ApplyOp(st, Head(q), Tail(q)), Tail(q))


(***************************************************************************)
(* What a handler or an effect can reach besides the store: the queues of   *)
(* the store, the promises, repondEventsMeta.resolveValueMap and the record *)
(* of the handler invocations.  E is threaded through the operators below.  *)
(*   q   setState/addItem/removeItem/whenSettingStates calls not yet run    *)
(*   nt  onNextTick callbacks not yet run                                   *)
(*   mt  runEventHandler calls suspended at their await                     *)
(*   rvm resolveValueMap: value id -> promise whose resolve is stored       *)
(*   pr  the promises made by getEventValue                                 *)
(*   log the handler invocations, in order                                  *)
(*   gen how many live ids _makeLiveIdFromEventBlock has made               *)
(*   watchers the live ids whose whenElapsedTimeChanges effect is started   *)
(*   now Date.now()                                                         *)
(*   thrown the TypeErrors thrown so far                                    *)
(*   fast repondEventsMeta.fastChain                                        *)
(***************************************************************************)
Enq(E, op) == [E EXCEPT !.q = Append(@, op)]
Thunk(kind, a) == [kind |-> kind, a |-> a]
onNextTick(E, t) == [E EXCEPT !.nt = Append(@, t)]

\* calling a stored resolve: only the first call settles the promise
Resolve(E, k, value) ==
    IF E.pr[k].done THEN E ELSE [E EXCEPT !.pr[k] = [done |-> TRUE, value |-> value]]

\* options.liveId of each event, or the id _makeLiveIdFromEventBlock makes for it
RECURSIVE WithLiveIds(_, _)
WithLiveIds(blocks, gen) ==
    IF blocks = <<>> THEN <<>>
    ELSE LET b == Head(blocks) IN
         IF b.liveId # Null THEN <<b>> \o WithLiveIds(Tail(blocks), gen)
         ELSE <<[b EXCEPT !.liveId = GenIdOf[gen + 1]]>> \o WithLiveIds(Tail(blocks), gen + 1)

\* internal.ts 424-527
addTheLiveEvents(st, E, a) ==
    LET chainId == a.chainId
        liveId == a.liveId
        isForSubChain == liveId # Null
        chainDoesntExist == ~getItemWillExist(st, E.q, "chains", chainId)
        parentLiveEventRunMode ==
            IF isForSubChain /\ Has(st.liveEvents, liveId) THEN st.liveEvents[liveId].nowRunMode
            ELSE Null
        parentLiveEventHasNonAddRunMode ==
            isForSubChain /\ parentLiveEventRunMode # Null /\ parentLiveEventRunMode # "add"
        canAutoActivate == (~isForSubChain) \/ parentLiveEventHasNonAddRunMode
        E1 == IF chainDoesntExist
              THEN Enq(E, Op("addItem", chainId,
                       [type |-> "chains",
                        state |-> newChainState(chainId, canAutoActivate, a.parentChainId)]))
              ELSE E
        isDuplicate(b) == b.liveId # Null /\ getItemWillExist(st, E1.q, "liveEvents", b.liveId)
        notDuplicate(b) == ~isDuplicate(b)
        newDuplicateLiveEvents == SelectSeq(a.eventBlocks, isDuplicate)
        eventsWithoutDuplicates == WithLiveIds(SelectSeq(a.eventBlocks, notDuplicate), E.gen)
        newLiveIds == [i \in 1..Len(eventsWithoutDuplicates) |-> eventsWithoutDuplicates[i].liveId]
        made == Cardinality({i \in 1..Len(a.eventBlocks) :
                                notDuplicate(a.eventBlocks[i]) /\ a.eventBlocks[i].liveId = Null})
        \* internal.ts 489: listOptions.chainId ?? eventOptions.chainId
        eventChainId == IF a.listChainId # Null THEN a.listChainId ELSE chainId
        adds == [i \in 1..Len(eventsWithoutDuplicates) |->
                    Op("addItem", newLiveIds[i],
                       [type |-> "liveEvents",
                        state |-> _makeLiveEventStateFromEvent(newLiveIds[i], eventChainId,
                                      a.parentChainId, eventsWithoutDuplicates[i], E.now)])]
        whenSetting == Op("setChainLiveEventIds", chainId,
                          [hasPriority |-> a.hasPriority, newLiveIds |-> newLiveIds,
                           duplicates |-> newDuplicateLiveEvents,
                           isForSubChain |-> isForSubChain,
                           parentLiveEventHasNonAddRunMode |-> parentLiveEventHasNonAddRunMode,
                           parentLiveEventRunMode |-> parentLiveEventRunMode])
    IN  [E1 EXCEPT !.q = (@ \o adds) \o <<whenSetting>>, !.gen = @ + made]

\* internal.ts 364: the chain the events go to, which _addEvents returns (534)
ChainIdOfAddEvents(listOptions) ==
    IF listOptions.liveId # Null THEN listOptions.liveId
    ELSE IF listOptions.chainId # Null THEN listOptions.chainId
    ELSE DefaultChain

\* internal.ts 360-537 without the fast mode
_addEvents(st, E, eventBlocks, listOptions) ==
    LET liveId == listOptions.liveId
        chainId == ChainIdOfAddEvents(listOptions)
        a == [eventBlocks |-> eventBlocks, liveId |-> liveId, chainId |-> chainId,
              listChainId |-> listOptions.chainId,
              parentChainId |-> listOptions.parentChainId,
              hasPriority |-> listOptions.hasPriority]
    IN  IF liveId # Null /\ getItemWillExist(st, E.q, "liveEvents", liveId)
        THEN addTheLiveEvents(st, E, a)
        ELSE onNextTick(E, Thunk("addTheLiveEvents", a))

EventBlockOptions(liveId, chainId, parentChainId, hasPriority) ==
    [liveId |-> liveId, chainId |-> chainId, parentChainId |-> parentChainId,
     hasPriority |-> hasPriority]

\* internal.ts 539-543: what _addEvent returns is what _addEvents returns
_addEventReturn(event, options) == ChainIdOfAddEvents([options EXCEPT !.liveId = Null])

\* internal.ts 539-543: the store effects of _addEvent
_addEvent(st, E, event, options) ==
    _addEvents(st, E, <<[event EXCEPT !.liveId = options.liveId]>>, [options EXCEPT !.liveId = Null])

\* helpers.ts 548-578: E after the call, and the value the call returns.  The
\* live id is options.liveId or one made by _makeLiveIdFromEventBlock.
runEvent(st, E, event, options) ==
    LET made == options.liveId = Null
        liveId == IF made THEN GenIdOf[E.gen + 1] ELSE options.liveId
        E1 == IF made THEN [E EXCEPT !.gen = @ + 1] ELSE E
        withIds == [options EXCEPT !.liveId = liveId]
    IN  [E |-> _addEvent(st, E1, event, withIds),
         realLiveId |-> _addEventReturn(event, withIds)]

\* helpers.ts
runEvents(st, E, eventsToRun, options) == _addEvents(st, E, eventsToRun, options)

runPriorityEvents(st, E, eventsToRun, options) ==
    runEvents(st, E, eventsToRun, [options EXCEPT !.hasPriority = TRUE])

addSubEvents(st, E, liveId, eventsToRun) ==
    runEvents(st, E, eventsToRun, EventBlockOptions(liveId, Null, Null, FALSE))

\* ofGroup names the group whose live events are the targets, AllGroups for
\* all the live events of the store, Null where the targets are given
RunModeTarget(runMode, chainId, hasTargets, targets, upTo) ==
    [runMode |-> runMode, chainId |-> chainId, hasTargets |-> hasTargets,
     targets |-> targets, upTo |-> upTo, ofGroup |-> Null]

RunModeAll(runMode, group) ==
    [RunModeTarget(runMode, Null, TRUE, <<>>, Null) EXCEPT !.ofGroup = group]

eventDo(E, runMode, liveId) ==
    onNextTick(E, Thunk("runEventsInMode", RunModeTarget(runMode, Null, TRUE, <<liveId>>, Null)))

chainDo(E, runMode, chainId) ==
    onNextTick(E, Thunk("runEventsInMode", RunModeTarget(runMode, chainId, FALSE, <<>>, Null)))

doForAllBeforeEvent(E, runMode, liveId) ==
    onNextTick(E, Thunk("runEventsInMode", RunModeTarget(runMode, Null, TRUE, <<>>, liveId)))

skipToEvent(E, liveId) == doForAllBeforeEvent(E, "skip", liveId)

\* helpers.ts 634-641
allGroupEventsDo(E, groupName, runMode) ==
    onNextTick(E, Thunk("runEventsInMode", RunModeAll(runMode, groupName)))

\* helpers.ts 659-664: setState_OLD without onNextTick
allEventsDo(E, runMode) ==
    Enq(E, Op("runEventsInMode", Null, RunModeAll(runMode, AllGroups)))

cancelUpToEvent(E, liveId) == doForAllBeforeEvent(E, "cancel", liveId)

\* the scope that setVariable and getVariable take by default
GlobalScope == "global"

\* variableHelpers.ts 4-40 without the fast mode: the queue and the scope maps
\* after setVariable(name, value, scope)
setVariable(st, E, scopes, name, value, scope) ==
    LET scopeIsChain == scope # GlobalScope /\ scope \in DOMAIN st.chains IN
    IF scopeIsChain
    THEN [E |-> Enq(E, Op("setVariable", scope, [name |-> name, value |-> value])),
          scopes |-> scopes]
    ELSE [E |-> E,
          scopes |-> Put(scopes, scope,
                         Put(IF Has(scopes, scope) THEN scopes[scope] ELSE <<>>, name, value))]

\* variableHelpers.ts 64-71: the while loop over the chain and its parents
RECURSIVE FindInChains(_, _, _)
FindInChains(st, name, chainId) ==
    IF chainId = Null THEN Undefined
    ELSE IF Has(st.chains, chainId) /\ Has(st.chains[chainId].variablesByName, name)
    THEN st.chains[chainId].variablesByName[name]
    ELSE FindInChains(st, name,
             IF Has(st.chains, chainId) THEN st.chains[chainId].parentChainId ELSE Null)

\* variableHelpers.ts 42-83 without the fast mode
findVariableInScope(st, scopes, name, scope) ==
    LET foundVariable == IF scope # GlobalScope THEN FindInChains(st, name, scope) ELSE Undefined IN
    IF foundVariable = Undefined
    THEN IF Has(scopes, scope) /\ Has(scopes[scope], name) THEN scopes[scope][name] ELSE Undefined
    ELSE foundVariable

\* variableHelpers.ts 85-89
getVariable(st, scopes, name, scope) == findVariableInScope(st, scopes, name, scope)

\* valueHelpers.ts 96-110: the nearest chain, going up the parents, that has a
\* resolve stored; Null when there is none
RECURSIVE NearestGetEventValue(_, _, _)
NearestGetEventValue(st, rvm, chainId) ==
    IF chainId = Null THEN Null
    ELSE IF Has(st.chains, chainId) /\ chainId \in DOMAIN rvm THEN chainId
    ELSE NearestGetEventValue(st, rvm,
             IF Has(st.chains, chainId) THEN st.chains[chainId].parentChainId ELSE Null)

\* resolveNearestGetEventValue calling the resolver without the value
resolveNearestWithoutValue(st, E, initialChainId, value) ==
    LET chainId == NearestGetEventValue(st, E.rvm, initialChainId) IN
    [chainId |-> chainId,
     E |-> IF chainId = Null THEN E ELSE Resolve(E, E.rvm[chainId], Undefined)]

resolveNearestGetEventValue(st, E, initialChainId, value) ==
    LET chainId == NearestGetEventValue(st, E.rvm, initialChainId) IN
    [chainId |-> chainId,
     E |-> IF chainId = Null THEN E ELSE Resolve(E, E.rvm[chainId], value)]


(***************************************************************************)
(* Event types.  wait, log and returnValue are those of events/basic.ts;    *)
(* parentOnAdd / parentOnStart are host event types whose handler calls     *)
(* addSubEvents on its own live id at its first add / first start; useValue *)
(* is a host event type whose parameter p is a getEventValue value block.   *)
(***************************************************************************)
ReturnedValue == 7    \* the value the returnValue events of the model carry
WaitDuration == 2     \* the duration parameter of the wait events of the model

Log(isParallel) == Block("log", isParallel, NullDuration, Undefined, Undefined, Null, Null)
Wait(d) == Block("wait", FALSE, NullDuration, d, Undefined, Null, Null)
ReturnValue(v) == Block("returnValue", FALSE, NullDuration, Undefined, v, Null, Null)
ParentOnAdd(prog, duration) == Block("parentOnAdd", FALSE, duration, Undefined, Undefined, prog, Null)
ParentOnStart(prog, duration) == Block("parentOnStart", FALSE, duration, Undefined, Undefined, prog, Null)
UseValue(prog) == Block("useValue", FALSE, NullDuration, Undefined, Undefined, prog, Null)

\* an event whose (group, name) is in no registered event group
Unregistered(duration) ==
    Block("unregistered", FALSE, duration, Undefined, Undefined, Null, Null)

\* meta.allEventTypeGroups[group]?.[name] is defined
IsRegistered(b) == b.name # "unregistered"

\* reading a property of the undefined event type throws a TypeError
Throw(E, liveId, at) == [E EXCEPT !.thrown = Append(@, [liveId |-> liveId, at |-> at])]

\* the event lists that handlers and value blocks launch, by name
EventsOf(prog) ==
    CASE prog = "one" -> <<Log(FALSE)>>
      [] prog = "two" -> <<Log(FALSE), Log(FALSE)>>
      [] prog = "return" -> <<ReturnValue(ReturnedValue)>>
      [] prog = "logThenReturn" -> <<Log(FALSE), ReturnValue(ReturnedValue)>>
      [] prog = "noReturn" -> <<Log(FALSE)>>
      [] prog = "returnThenLog" -> <<ReturnValue(ReturnedValue), Log(FALSE)>>
      [] prog = "nested" -> <<ParentOnStart("one", NullDuration)>>
      [] OTHER -> <<>>

\* the parameter of the event as written in the block (before evaluation)
RawParam(b) ==
    CASE b.name = "wait" -> b.d
      [] b.name = "returnValue" -> b.v
      [] OTHER -> Undefined

\* events/basic.ts and the host event types: the run function of an event type,
\* called with the evaluated parameter p and the live info
eventHandler(st, E, b, p, info) ==
    LET E0 == [E EXCEPT !.log = Append(@, [liveId |-> info.liveId, name |-> b.name,
                                           prog |-> b.prog, chainId |-> info.chainId,
                                           runMode |-> info.runMode, p |-> p,
                                           isUnsuspending |-> info.isUnsuspending,
                                           elapsedTime |-> info.elapsedTime,
                                           goalEndTime |-> info.goalEndTime])]
    IN  CASE b.name = "wait" ->
                IF info.runMode = "start"
                THEN Enq(E0, Op("setLive", info.liveId,
                                [goalEndTime |-> Plus(info.elapsedTime, p)]))
                ELSE E0
          [] b.name = "returnValue" ->
                IF info.isFirstStart
                THEN LET r == resolveNearestGetEventValue(st, E0, info.chainId, p) IN
                     IF r.chainId # Null THEN chainDo(r.E, "cancel", r.chainId) ELSE r.E
                ELSE E0
          [] b.name = "parentOnAdd" ->
                IF info.isFirstAdd THEN addSubEvents(st, E0, info.liveId, EventsOf(b.prog)) ELSE E0
          [] b.name = "parentOnStart" ->
                IF info.isFirstStart THEN addSubEvents(st, E0, info.liveId, EventsOf(b.prog)) ELSE E0
          [] OTHER -> E0

\* unnamed/part_004 34-55: the promise is made, its resolve stored, the events run
getEventValue(st, E, events, valueId, parentChainId) ==
    LET k == Len(E.pr) + 1
        E1 == [E EXCEPT !.pr = Append(@, [done |-> FALSE, value |-> Undefined]),
                        !.rvm = Put(@, valueId, k)]
    IN  [promise |-> k,
         E |-> runEvents(st, E1, events, EventBlockOptions(Null, valueId, parentChainId, FALSE))]

\* internal.ts 135-221.  The part after the await is HandlerAfterAwait.
runEventHandler(st, E, liveEventId) ==
    IF ~Has(st.liveEvents, liveEventId) THEN E
    ELSE
    LET liveEventState == st.liveEvents[liveEventId]
        runMode == liveEventState.nowRunMode
        elapsedTime == getElapsedTime(st)
        relevantTime ==
            CASE runMode = "add" -> liveEventState.addTime
              [] runMode = "pause" -> liveEventState.pauseTime
              [] runMode = "suspend" -> liveEventState.suspendTime
              [] OTHER -> liveEventState.startTime
        isUnpausing == relevantTime # NullTime /\ liveEventState.unpauseTime = relevantTime
        isUnsuspending == relevantTime # NullTime /\ liveEventState.unsuspendTime = relevantTime
        isUnfreezing == isUnpausing \/ isUnsuspending
        liveInfo == [runMode |-> runMode, chainId |-> liveEventState.chainId,
                     liveId |-> liveEventState.id, elapsedTime |-> elapsedTime,
                     isUnpausing |-> isUnpausing, isUnsuspending |-> isUnsuspending,
                     isUnfreezing |-> isUnfreezing,
                     goalEndTime |-> liveEventState.goalEndTime,
                     isFirstAdd |-> (runMode = "add" /\ ~isUnfreezing),
                     isFirstStart |-> (runMode = "start" /\ ~isUnfreezing)]
        b == liveEventState.event
    IN  IF ~IsRegistered(b)
        THEN \* eventTypeDefinition.run of undefined: the promise of this call is rejected
             Throw(E, liveEventId, "runEventHandler")
        ELSE
        IF ~liveEventState.evaluated \/ (runMode = "start" /\ liveInfo.isFirstStart)
        THEN \* evaluateParams, then the await
             IF b.name = "useValue"
             THEN LET g == getEventValue(st, E, EventsOf(b.prog), ValueIdOf(liveEventId),
                                         liveInfo.chainId)
                  IN  [g.E EXCEPT !.mt = Append(@, [liveEventId |-> liveEventId, b |-> b,
                                                    liveInfo |-> liveInfo,
                                                    promise |-> g.promise, p |-> Undefined])]
             ELSE [E EXCEPT !.mt = Append(@, [liveEventId |-> liveEventId, b |-> b,
                                              liveInfo |-> liveInfo,
                                              promise |-> NoPromise, p |-> RawParam(b)])]
        ELSE Enq(eventHandler(st, E, b, liveEventState.evaluatedP, liveInfo),
                 Op("setLive", liveEventId,
                    [evaluated |-> TRUE, evaluatedP |-> liveEventState.evaluatedP]))

(***************************************************************************)
(* Fast mode: the events of a list run without live events                  *)
(***************************************************************************)
\* internal.ts 341: liveId: "unknown", there is no live id in fast mode
UnknownLiveId == "unknown"

\* an event type of the host whose handler calls cancelFastChain(chainId)
CancelFast == Block("cancelFast", FALSE, NullDuration, Undefined, Undefined, Null, Null)

\* meta.ts 40-47
NoFastChain ==
    [nowRootFastChainId |-> Null, nowRootFastChainParentId |-> Null,
     nowFastChainsInfoMap |-> [x \in {} |-> 0],
     foundFastReturnValue |-> Undefined, getEventValueChainId |-> Null]

\* internal.ts 386-391, 398-403
FastChainInfo(parentFastChainId) ==
    [nowChildFastChainId |-> Null, isCanceled |-> FALSE, parentFastChainId |-> parentFastChainId]

\* helpers.ts 677-683: the children found through nowChildFastChainId are marked
RECURSIVE CancelFastChildren(_, _)
CancelFastChildren(infoMap, nextChildChainId) ==
    IF nextChildChainId = Null \/ nextChildChainId \notin DOMAIN infoMap THEN infoMap
    ELSE CancelFastChildren([infoMap EXCEPT ![nextChildChainId].isCanceled = TRUE],
                            infoMap[nextChildChainId].nowChildFastChainId)

\* a cancelFastChain that marks the chain also after its info has been cleared
cancelFastChainAlways(E, chainId) ==
    LET infoMap == E.fast.nowFastChainsInfoMap
        info == IF chainId \in DOMAIN infoMap THEN infoMap[chainId] ELSE FastChainInfo(Null)
    IN  [E EXCEPT !.fast.nowFastChainsInfoMap =
            CancelFastChildren(Put(infoMap, chainId, [info EXCEPT !.isCanceled = TRUE]),
                               info.nowChildFastChainId)]

\* helpers.ts 668-684
cancelFastChain(E, chainId) ==
    LET infoMap == E.fast.nowFastChainsInfoMap IN
    IF chainId \notin DOMAIN infoMap THEN E
    ELSE [E EXCEPT !.fast.nowFastChainsInfoMap =
            CancelFastChildren([infoMap EXCEPT ![chainId].isCanceled = TRUE],
                               infoMap[chainId].nowChildFastChainId)]

\* internal.ts 330-355
FastLiveInfo(E, chainId) ==
    [runMode |-> "start", chainId |-> chainId, liveId |-> UnknownLiveId, elapsedTime |-> 0,
     isUnpausing |-> FALSE, isUnsuspending |-> FALSE, isUnfreezing |-> FALSE,
     goalEndTime |-> E.now, isFirstAdd |-> TRUE, isFirstStart |-> TRUE]

\* internal.ts 310-328: runEventFastMode up to its await of evaluateParams; the
\* rest of it is FastHandlerAfterAwait.  The events run in fast mode here have
\* no value block among their params.
runEventFastMode(E, event, chainId) ==
    IF chainId = Null THEN E
    ELSE IF ~IsRegistered(event) THEN Throw(E, UnknownLiveId, "runEventFastMode")
    ELSE [E EXCEPT !.mt = Append(@, [liveEventId |-> UnknownLiveId, b |-> event,
                                     liveInfo |-> FastLiveInfo(E, chainId),
                                     promise |-> NoPromise, p |-> RawParam(event)])]

\* internal.ts 406-412: the loop over the events; runEventFastMode is not awaited
RECURSIVE FastLoop(_, _, _)
FastLoop(E, eventBlocks, chainId) ==
    IF eventBlocks = <<>> THEN E
    ELSE IF E.fast.nowFastChainsInfoMap[chainId].isCanceled THEN E
    ELSE FastLoop(runEventFastMode(E, Head(eventBlocks), chainId), Tail(eventBlocks), chainId)

\* internal.ts 374-422: _addEvents with listOptions.isFast
_addEventsFast(E, eventBlocks, chainId, parentChainId) ==
    LET infoMap == E.fast.nowFastChainsInfoMap
        parentChainIsFast == parentChainId # Null /\ parentChainId \in DOMAIN infoMap
        E1 == IF ~parentChainIsFast
              THEN [E EXCEPT !.fast.nowRootFastChainId = chainId,
                             !.fast.nowRootFastChainParentId = parentChainId,
                             !.fast.nowFastChainsInfoMap = Put([x \in {} |-> 0], chainId, FastChainInfo(Null))]
              ELSE [E EXCEPT !.fast.nowFastChainsInfoMap =
                        Put([infoMap EXCEPT ![parentChainId].nowChildFastChainId = chainId],
                            chainId, FastChainInfo(parentChainId))]
        E2 == FastLoop(E1, eventBlocks, chainId)
    IN  IF ~parentChainIsFast
        THEN [E2 EXCEPT !.fast.nowRootFastChainId = Null,
                        !.fast.nowRootFastChainParentId = Null,
                        !.fast.nowFastChainsInfoMap = [x \in {} |-> 0]]
        ELSE E2

\* the handlers of events/basic.ts run with isFast, and that of cancelFast
fastEventHandler(E, b, info) ==
    LET E0 == [E EXCEPT !.log = Append(@, [liveId |-> info.liveId, name |-> b.name,
                                           prog |-> b.prog, chainId |-> info.chainId,
                                           runMode |-> info.runMode, p |-> RawParam(b),
                                           isUnsuspending |-> info.isUnsuspending,
                                           elapsedTime |-> info.elapsedTime,
                                           goalEndTime |-> info.goalEndTime])]
    IN  CASE b.name = "returnValue" ->
                LET E1 == [E0 EXCEPT !.fast.foundFastReturnValue = b.v]
                    getEventValueChainId == E1.fast.getEventValueChainId
                    E2 == IF getEventValueChainId # Null
                          THEN cancelFastChain(E1, getEventValueChainId) ELSE E1
                IN  [E2 EXCEPT !.fast.getEventValueChainId = Null]
          [] b.name = "cancelFast" -> cancelFastChain(E0, info.chainId)
          [] OTHER -> E0

\* internal.ts 357: runEventFastMode resumed after its await
FastHandlerAfterAwait(E, m) == fastEventHandler(E, m.b, m.liveInfo)

\* internal.ts 212-216: runEventHandler resumed with the evaluated parameters
HandlerAfterAwait(st, E, m) ==
    IF m.liveEventId = UnknownLiveId THEN FastHandlerAfterAwait(E, m)
    ELSE
    LET evaluatedP == IF m.promise = NoPromise THEN m.p ELSE E.pr[m.promise].value IN
    Enq(eventHandler(st, E, m.b, evaluatedP, m.liveInfo),
        Op("setLive", m.liveEventId, [evaluated |-> TRUE, evaluatedP |-> evaluatedP]))

\* finalizeEvent without its onNextTick removal of the live event
finalizeEventKeepsItem(E, liveEventId) ==
    Enq(E, Op("finalize", liveEventId, [x |-> 0]))

\* internal.ts 223-237
finalizeEvent(E, liveEventId) ==
    onNextTick(Enq(E, Op("finalize", liveEventId, [x |-> 0])),
               Thunk("removeItem", [type |-> "liveEvents", id |-> liveEventId]))


(***************************************************************************)
(* The effects (effects/chains.ts, effects/liveEvents.ts)                   *)
(***************************************************************************)
\* whenLiveEventIdsChange without the removal of a chain whose queue is empty
whenLiveEventIdsChangeKeepsChain(st, E, chainId) ==
    IF ~Has(st.chains, chainId) THEN E
    ELSE Enq(E, Op("activate", chainId,
                   [canAutoActivate |-> st.chains[chainId].canAutoActivate,
                    isSubChain |-> getItemWillExist(st, E.q, "liveEvents", chainId)]))

\* effects/chains.ts 16-94
whenLiveEventIdsChange(st, E, chainId) ==
    IF ~Has(st.chains, chainId) THEN E
    ELSE
    LET nowChainState == st.chains[chainId]
        firstLiveEventIds == nowChainState.liveEventIds
        canAutoActivate == nowChainState.canAutoActivate
        isSubChain == getItemWillExist(st, E.q, "liveEvents", chainId)
        E1 == IF Len(firstLiveEventIds) = 0
              THEN LET R == Enq(E, Op("removeItem", chainId, [type |-> "chains"])) IN
                   IF chainId \in DOMAIN R.rvm THEN Resolve(R, R.rvm[chainId], Undefined) ELSE R
              ELSE E
    IN  Enq(E1, Op("activate", chainId,
                   [canAutoActivate |-> canAutoActivate, isSubChain |-> isSubChain]))

\* effects/liveEvents.ts 54-149
whenNowRunModeChanges(st, E, liveId, prevRunMode) ==
    LET itemState == st.liveEvents[liveId]
        latestRunMode == itemState.nowRunMode
        nowTime == E.now
        addTime == itemState.addTime
        isUnfreeze == latestRunMode \in {"unpause", "unsuspend"}
        isUnpausing == latestRunMode = "unpause"
        before == IF isUnpausing THEN itemState.runModeBeforePause
                  ELSE itemState.runModeBeforeSuspend
        runMode == IF isUnfreeze THEN (IF before # Null THEN before ELSE "start")
                   ELSE latestRunMode
        E1 == IF isUnfreeze
              THEN Enq(E, Op("unfreeze", liveId,
                             [nowTime |-> nowTime, runMode |-> runMode,
                              isUnpausing |-> isUnpausing]))
              ELSE E
        setLiveState(X, state) == Enq(X, Op("setLive", liveId, state))
    IN  IF runMode = "add"
        THEN runEventHandler(st, setLiveState(E1, [addTime |-> nowTime]), liveId)
        ELSE IF addTime = NullTime \/ addTime = 0 THEN E1
        ELSE IF runMode = "start"
        THEN LET startTime == itemState.startTime
                 isFirstStart == startTime = NullTime
                 foundElapsedTime == getElapsedTime(st)
                 foundDuration == itemState.duration
                 newGoalEndTime ==
                     IF isFirstStart /\ foundDuration # NullDuration
                     THEN foundElapsedTime + foundDuration * DurationScale
                     ELSE itemState.goalEndTime
             IN  IF isFirstStart /\ foundDuration = NullDuration /\ ~IsRegistered(itemState.event)
                 THEN \* eventType.duration of undefined: the run of the effect ends here
                      Throw(E1, liveId, "whenNowRunModeChanges")
                 ELSE
                 runEventHandler(st,
                     setLiveState(E1, [startTime |-> nowTime, goalEndTime |-> newGoalEndTime]),
                     liveId)
        ELSE IF runMode = "pause"
        THEN runEventHandler(st,
                 setLiveState(E1, [pauseTime |-> nowTime, runModeBeforePause |-> prevRunMode]),
                 liveId)
        ELSE IF runMode = "suspend"
        THEN runEventHandler(st,
                 setLiveState(E1, [suspendTime |-> nowTime, runModeBeforeSuspend |-> prevRunMode]),
                 liveId)
        ELSE IF runMode \in {"skip", "cancel", "end"}
        THEN finalizeEvent(runEventHandler(st, E1, liveId), liveId)
        ELSE E1

\* whenElapsedTimeChanges without its test of the run mode
whenElapsedTimeChangesInAnyRunMode(st, E, liveId) ==
    IF ~Has(st.liveEvents, liveId) THEN E
    ELSE IF st.liveEvents[liveId].startTime = NullTime THEN E
    ELSE IF st.elapsedTime >= st.liveEvents[liveId].goalEndTime
    THEN [Enq(E, Op("setLive", liveId, [nowRunMode |-> "end"]))
             EXCEPT !.watchers = @ \ {liveId}]
    ELSE E

\* effects/liveEvents.ts 173-199
whenElapsedTimeChanges(st, E, liveId) ==
    IF ~Has(st.liveEvents, liveId) THEN E
    ELSE
    LET liveEventState == st.liveEvents[liveId]
        elapsedTime == st.elapsedTime
        nowRunMode == liveEventState.nowRunMode
    IN  IF nowRunMode \in {"end", "pause", "suspend", "cancel", "skip", "add"} THEN E
        ELSE IF liveEventState.startTime = NullTime THEN E
        ELSE IF elapsedTime >= liveEventState.goalEndTime
        THEN [Enq(E, Op("setLive", liveId, [nowRunMode |-> "end"]))
                 EXCEPT !.watchers = @ \ {liveId}]
        ELSE E

\* effects/liveEvents.ts 23-48: one removed live id
RECURSIVE WhenRemoved(_, _, _)
WhenRemoved(st, E, removed) ==
    IF removed = <<>> THEN E
    ELSE
    LET liveId == Head(removed).id
        chainId == Head(removed).chainId
        E1 == [E EXCEPT !.watchers = @ \ {liveId}]
        dups == IF Has(st.chains, chainId) THEN st.chains[chainId].duplicateEventsToAdd ELSE <<>>
        found == {i \in 1..Len(dups) : dups[i].liveId = liveId}
        \* the map keeps one event per live id: the one parked last
        duplicateEvent == dups[CHOOSE i \in found : \A j \in found : j <= i]
        E2 == IF found = {} THEN E1
              ELSE Enq(_addEvents(st, E1, <<duplicateEvent>>,
                                  EventBlockOptions(Null, chainId, Null, FALSE)),
                       Op("clearDuplicate", chainId, [liveId |-> liveId]))
    IN  WhenRemoved(st, E2, Tail(removed))

\* effects/liveEvents.ts 17-53
whenLiveEventAddedOrRemoved(st, E, addedLiveIds, removedLiveIds) ==
    WhenRemoved(st, [E EXCEPT !.watchers = @ \cup SeqRange(addedLiveIds)], removedLiveIds)


(***************************************************************************)
(* State                                                                    *)
(***************************************************************************)
VARIABLES
    chains,            \* the "chains" store: chain id -> chain state
    liveEvents,        \* the "liveEvents" store: live id -> live event state
    elapsedTime,       \* the state the default elapsedTimePath points at
    setStatesQueue,    \* queued store updates
    nextTickQueue,     \* queued onNextTick callbacks
    microtasks,        \* runEventHandler calls waiting at their await
    pendingEffects,    \* effect runs the last runSetStates found to be due
    watchers,          \* live ids with a started whenElapsedTimeChanges effect
    resolveValueMap,   \* repondEventsMeta.resolveValueMap
    promises,          \* the promises of getEventValue
    handlerLog,        \* handler invocations so far
    thrown,            \* TypeErrors thrown so far
    fastChain,         \* repondEventsMeta.fastChain
    nextGenId,         \* live ids made so far
    nextLiveId,        \* live ids given by the host so far
    dateNow,           \* Date.now()
    skew,              \* how far Date.now() ran ahead of the elapsed time
    phase,             \* "idle", "host", "set", "effects", "nextTick" or "micro"
    calls,             \* public API calls made so far
    ticks,             \* elapsed-time updates made so far
    returned,          \* what the last runEvent call returned to the host
    variablesByScopesMap, \* repondEventsMeta.variablesByScopesMap
    givenParams,       \* the params map handed to evaluateParams
    evaluatedParams,   \* what evaluateParams returned for it: <<>>, or the map in a 1-tuple
    limits             \* how many calls, ticks, host events and clock skips this behaviour may have

vars == <<chains, liveEvents, elapsedTime, setStatesQueue, nextTickQueue, microtasks,
          pendingEffects, watchers, resolveValueMap, promises, handlerLog, thrown, fastChain, nextGenId,
          nextLiveId, dateNow, skew, phase, calls, ticks, returned, variablesByScopesMap,
          givenParams, evaluatedParams, limits>>

St == [chains |-> chains, liveEvents |-> liveEvents, elapsedTime |-> elapsedTime]

Env == [q |-> setStatesQueue, nt |-> nextTickQueue, mt |-> microtasks,
        rvm |-> resolveValueMap, pr |-> promises, log |-> handlerLog,
        gen |-> nextGenId, watchers |-> watchers, now |-> dateNow, thrown |-> thrown,
        fast |-> fastChain]

EmptyMap == [x \in {} |-> 0]

Ready(pr, m) == IF m.promise = NoPromise THEN TRUE ELSE pr[m.promise].done

\* where the frame goes next: the effects that are due, another runSetStates,
\* the onNextTick callbacks, the microtasks, then idle
NextPhase(ph, pend, E) ==
    IF pend # <<>> THEN "effects"
    ELSE IF ph \in {"set", "effects"} /\ E.q # <<>> THEN "set"
    ELSE IF ph \in {"set", "effects", "nextTick"} /\ E.nt # <<>> THEN "nextTick"
    ELSE IF \E i \in 1..Len(E.mt) : Ready(E.pr, E.mt[i]) THEN "micro"
    ELSE "idle"

SetStore(st) ==
    /\ chains' = st.chains
    /\ liveEvents' = st.liveEvents
    /\ elapsedTime' = st.elapsedTime

SetEnv(E) ==
    /\ setStatesQueue' = E.q
    /\ nextTickQueue' = E.nt
    /\ microtasks' = E.mt
    /\ resolveValueMap' = E.rvm
    /\ promises' = E.pr
    /\ handlerLog' = E.log
    /\ thrown' = E.thrown
    /\ nextGenId' = E.gen
    /\ watchers' = E.watchers
    /\ fastChain' = E.fast

Limits(c, t, e, k, b) ==
    [calls |-> c, ticks |-> t, events |-> e, skew |-> k, betweenFrames |-> b]

\* the program after its stores, effects and event types have been set up
ConstructedStores ==
    /\ chains = EmptyMap
    /\ liveEvents = EmptyMap
    /\ elapsedTime = 0
    /\ setStatesQueue = <<>>
    /\ nextTickQueue = <<>>
    /\ microtasks = <<>>
    /\ pendingEffects = <<>>
    /\ watchers = {}
    /\ resolveValueMap = EmptyMap
    /\ promises = <<>>
    /\ handlerLog = <<>>
    /\ thrown = <<>>
    /\ fastChain = NoFastChain
    /\ nextGenId = 0
    /\ nextLiveId = 0
    /\ dateNow = DateBase
    /\ skew = 0
    /\ phase = "idle"
    /\ calls = 0
    /\ ticks = 0
    /\ returned = Null
    /\ variablesByScopesMap = EmptyMap
    /\ evaluatedParams = <<>>

\* ... with no params map handed to evaluateParams
Constructed ==
    /\ ConstructedStores
    /\ givenParams = EmptyMap

Init ==
    /\ Constructed
    /\ limits = Limits(MaxCalls, MaxTicks, MaxEvents, 0, TRUE)

(***************************************************************************)
(* The frame of the store                                                   *)
(***************************************************************************)
InOrder(S) == SelectSeq(ItemOrder, LAMBDA x : x \in S)

\* the effect runs due after the queued updates took the store from old to new
EffectsDue(old, new, w) ==
    LET changedChains ==
            {c \in DOMAIN new.chains :
                \/ c \notin DOMAIN old.chains
                \/ old.chains[c].liveEventIds # new.chains[c].liveEventIds
                \/ old.chains[c].canAutoActivate # new.chains[c].canAutoActivate}
        added == DOMAIN new.liveEvents \ DOMAIN old.liveEvents
        removed == DOMAIN old.liveEvents \ DOMAIN new.liveEvents
        changedRunMode ==
            {l \in DOMAIN new.liveEvents :
                \/ l \in added
                \/ old.liveEvents[l].nowRunMode # new.liveEvents[l].nowRunMode}
        removedSeq == InOrder(removed)
        chainRuns == [i \in 1..Len(InOrder(changedChains)) |->
                         [kind |-> "whenLiveEventIdsChange", id |-> InOrder(changedChains)[i]]]
        addRemoveRuns ==
            IF added = {} /\ removed = {} THEN <<>>
            ELSE <<[kind |-> "whenLiveEventAddedOrRemoved", id |-> Null,
                    added |-> InOrder(added),
                    removed |-> [i \in 1..Len(removedSeq) |->
                                    [id |-> removedSeq[i],
                                     chainId |-> old.liveEvents[removedSeq[i]].chainId]]]>>
        runModeRuns == [i \in 1..Len(InOrder(changedRunMode)) |->
                           LET l == InOrder(changedRunMode)[i] IN
                           [kind |-> "whenNowRunModeChanges", id |-> l,
                            prev |-> IF l \in added THEN Null ELSE old.liveEvents[l].nowRunMode]]
        timeRuns == IF old.elapsedTime = new.elapsedTime THEN <<>>
                    ELSE [i \in 1..Len(InOrder(w)) |->
                             [kind |-> "whenElapsedTimeChanges", id |-> InOrder(w)[i]]]
    IN  chainRuns \o addRemoveRuns \o runModeRuns \o timeRuns

\* One loop of the eventUpdates step: every queued update is applied
RunSetStates ==
    /\ \/ phase = "set"
       \/ phase \in {"idle", "host"} /\ (setStatesQueue # <<>> \/ nextTickQueue # <<>>)
    /\ LET new == RunQueue(St, setStatesQueue)
           due == EffectsDue(St, new, watchers)
           E == [Env EXCEPT !.q = <<>>]
       IN  /\ SetStore(new)
           /\ SetEnv(E)
           /\ pendingEffects' = due
           /\ phase' = NextPhase("set", due, E)
    /\ UNCHANGED <<nextLiveId, dateNow, skew, calls, ticks, returned, variablesByScopesMap, givenParams, evaluatedParams, limits>>

\* what every effect run does to the frame
EffectDone(E) ==
    /\ SetEnv(E)
    /\ pendingEffects' = Tail(pendingEffects)
    /\ phase' = NextPhase("effects", Tail(pendingEffects), E)
    /\ UNCHANGED <<chains, liveEvents, elapsedTime, nextLiveId, dateNow, skew, calls, ticks, returned, variablesByScopesMap, givenParams, evaluatedParams, limits>>

EffectIsDue(kind) ==
    /\ phase = "effects"
    /\ pendingEffects # <<>>
    /\ Head(pendingEffects).kind = kind

WhenLiveEventIdsChange ==
    /\ EffectIsDue("whenLiveEventIdsChange")
    /\ EffectDone(whenLiveEventIdsChange(St, Env, Head(pendingEffects).id))

WhenLiveEventAddedOrRemoved ==
    /\ EffectIsDue("whenLiveEventAddedOrRemoved")
    /\ EffectDone(whenLiveEventAddedOrRemoved(St, Env, Head(pendingEffects).added,
                                              Head(pendingEffects).removed))

WhenNowRunModeChanges ==
    /\ EffectIsDue("whenNowRunModeChanges")
    /\ EffectDone(whenNowRunModeChanges(St, Env, Head(pendingEffects).id,
                                        Head(pendingEffects).prev))

WhenElapsedTimeChanges ==
    /\ EffectIsDue("whenElapsedTimeChanges")
    /\ EffectDone(IF Head(pendingEffects).id \in watchers
                  THEN whenElapsedTimeChanges(St, Env, Head(pendingEffects).id)
                  ELSE Env)

\* One onNextTick callback runs at the end of the frame
RunNextTick ==
    /\ phase = "nextTick"
    /\ nextTickQueue # <<>>
    /\ LET t == Head(nextTickQueue)
           E0 == [Env EXCEPT !.nt = Tail(@)]
           E == CASE t.kind = "addTheLiveEvents" -> addTheLiveEvents(St, E0, t.a)
                  [] t.kind = "runEventsInMode" -> Enq(E0, Op("runEventsInMode", Null, t.a))
                  [] t.kind = "removeItem" -> Enq(E0, Op("removeItem", t.a.id, [type |-> t.a.type]))
       IN  /\ SetEnv(E)
           /\ phase' = NextPhase("nextTick", <<>>, E)
    /\ UNCHANGED <<chains, liveEvents, elapsedTime, pendingEffects, nextLiveId, dateNow, skew,
                   calls, ticks, returned, variablesByScopesMap, givenParams, evaluatedParams, limits>>

\* runEventHandler resumes after its await, once the frame has returned
ResumeHandler ==
    /\ phase = "micro"
    /\ \E i \in 1..Len(microtasks) :
          /\ Ready(promises, microtasks[i])
          /\ \A j \in 1..(i - 1) : ~Ready(promises, microtasks[j])
          /\ LET m == microtasks[i]
                 E0 == [Env EXCEPT !.mt = SubSeq(@, 1, i - 1) \o SubSeq(@, i + 1, Len(@))]
                 E == HandlerAfterAwait(St, E0, m)
             IN  /\ SetEnv(E)
                 /\ phase' = NextPhase("micro", <<>>, E)
    /\ UNCHANGED <<chains, liveEvents, elapsedTime, pendingEffects, nextLiveId, dateNow, skew,
                   calls, ticks, returned, variablesByScopesMap, givenParams, evaluatedParams, limits>>

Engine ==
    \/ RunSetStates
    \/ WhenLiveEventIdsChange
    \/ WhenLiveEventAddedOrRemoved
    \/ WhenNowRunModeChanges
    \/ WhenElapsedTimeChanges
    \/ RunNextTick
    \/ ResumeHandler


(***************************************************************************)
(* The host: calls of the public API between frames                         *)
(***************************************************************************)
\* options.liveId of the i-th event of a call is the next unused host id
RECURSIVE GiveLiveIds(_, _)
GiveLiveIds(blocks, n) ==
    IF blocks = <<>> THEN <<>>
    ELSE <<[Head(blocks) EXCEPT !.liveId = LiveIdOf[n + 1]]>> \o GiveLiveIds(Tail(blocks), n + 1)

\* The host runs between two frames.  phase is "host" from its first call until
\* the next frame starts; in "idle" a frame has returned, and when that frame
\* left work for a next frame the host runs before it only if
\* limits.betweenFrames allows.
HostTurn ==
    \/ phase = "host"
    \/ /\ phase = "idle"
       /\ (limits.betweenFrames \/ (setStatesQueue = <<>> /\ nextTickQueue = <<>>))

\* a call of the public API that returns v to the host
HostCallReturning(E, v) ==
    /\ SetEnv(E)
    /\ calls' = calls + 1
    /\ phase' = IF limits.betweenFrames THEN "idle" ELSE "host"
    /\ returned' = v
    /\ UNCHANGED <<chains, liveEvents, elapsedTime, pendingEffects, dateNow, skew, ticks, variablesByScopesMap, givenParams, evaluatedParams, limits>>

HostCall(E) == HostCallReturning(E, returned)

CanCall == HostTurn /\ calls < limits.calls

KnownLiveIds == {LiveIdOf[i] : i \in 1..nextLiveId} \cup DOMAIN liveEvents

RunEvents(events) ==
    /\ CanCall
    /\ nextLiveId + Len(events) <= limits.events
    /\ nextLiveId' = nextLiveId + Len(events)
    /\ HostCall(runEvents(St, Env, GiveLiveIds(events, nextLiveId),
                          EventBlockOptions(Null, DefaultChain, Null, FALSE)))

RunPriorityEvents(events) ==
    /\ CanCall
    /\ nextLiveId + Len(events) <= limits.events
    /\ nextLiveId' = nextLiveId + Len(events)
    /\ HostCall(runPriorityEvents(St, Env, GiveLiveIds(events, nextLiveId),
                                  EventBlockOptions(Null, DefaultChain, Null, FALSE)))

EventDo(runMode, liveId) ==
    /\ CanCall
    /\ liveId \in KnownLiveIds
    /\ HostCall(eventDo(Env, runMode, liveId))
    /\ UNCHANGED nextLiveId

ChainDo(runMode, chainId) ==
    /\ CanCall
    /\ HostCall(chainDo(Env, runMode, chainId))
    /\ UNCHANGED nextLiveId

\* runEvents(events, { isFast: true }): the microtasks left by the call run as
\* soon as the host's code has returned
RunEventsFast(events, chainId) ==
    /\ CanCall
    /\ LET E == _addEventsFast(Env, events, chainId, Null) IN
          /\ SetEnv(E)
          /\ phase' = NextPhase("micro", <<>>, E)
    /\ calls' = calls + 1
    /\ UNCHANGED <<chains, liveEvents, elapsedTime, pendingEffects, nextLiveId, dateNow, skew,
                   ticks, returned, variablesByScopesMap, givenParams, evaluatedParams, limits>>

CancelFastChain(chainId) ==
    /\ CanCall
    /\ HostCall(cancelFastChain(Env, chainId))
    /\ UNCHANGED nextLiveId

AllEventsDo(runMode) ==
    /\ CanCall
    /\ HostCall(allEventsDo(Env, runMode))
    /\ UNCHANGED nextLiveId

AllGroupEventsDo(groupName, runMode) ==
    /\ CanCall
    /\ HostCall(allGroupEventsDo(Env, groupName, runMode))
    /\ UNCHANGED nextLiveId

SkipToEvent(liveId) ==
    /\ CanCall
    /\ liveId \in KnownLiveIds
    /\ HostCall(skipToEvent(Env, liveId))
    /\ UNCHANGED nextLiveId

\* the host advances the elapsed time by dt: setState on the elapsedTimePath
SetElapsedTime(dt) ==
    /\ HostTurn
    /\ ticks < limits.ticks
    /\ ticks' = ticks + 1
    /\ dateNow' = dateNow + dt
    /\ phase' = IF limits.betweenFrames THEN "idle" ELSE "host"
    /\ SetEnv(Enq(Env, Op("setElapsedTime", Null, [value |-> elapsedTime + dt])))
    /\ UNCHANGED <<chains, liveEvents, elapsedTime, pendingEffects, nextLiveId, skew, calls, returned, variablesByScopesMap, givenParams, evaluatedParams, limits>>

\* the wall clock moves on while the elapsed time stands still
WallClock ==
    /\ HostTurn
    /\ skew < limits.skew
    /\ skew' = skew + 1
    /\ dateNow' = dateNow + 1
    /\ UNCHANGED <<chains, liveEvents, elapsedTime, setStatesQueue, nextTickQueue, microtasks,
                   pendingEffects, watchers, resolveValueMap, promises, handlerLog, thrown, fastChain, nextGenId,
                   nextLiveId, phase, calls, ticks, returned, variablesByScopesMap, givenParams, evaluatedParams, limits>>

RunModes == {"pause", "unpause", "skip", "cancel"}

SchedulerPrograms ==
    {<<Log(FALSE)>>, <<Log(TRUE)>>, <<Log(TRUE), Log(TRUE), Log(FALSE)>>}

Next ==
    \/ \E events \in SchedulerPrograms : RunEvents(events)
    \/ \E events \in SchedulerPrograms : RunPriorityEvents(events)
    \/ \E runMode \in RunModes, liveId \in KnownLiveIds : EventDo(runMode, liveId)
    \/ \E runMode \in RunModes : ChainDo(runMode, DefaultChain)
    \/ \E liveId \in KnownLiveIds : SkipToEvent(liveId)
    \/ SetElapsedTime(1)
    \/ Engine

Spec == Init /\ [][Next]_vars


(***************************************************************************)
(* Vocabulary of the properties                                             *)
(***************************************************************************)
\* a frame has returned and nothing is scheduled
Quiescent ==
    /\ phase = "idle"
    /\ setStatesQueue = <<>>
    /\ nextTickQueue = <<>>

Invocations(liveId, runMode) ==
    {i \in 1..Len(handlerLog) : handlerLog[i].liveId = liveId /\ handlerLog[i].runMode = runMode}

AllLiveIds == SeqRange(LiveIdOf) \cup SeqRange(GenIdOf)

\* this step writes "start" to the nowRunMode of l
BecomesStart(l) ==
    /\ l \in DOMAIN liveEvents'
    /\ liveEvents'[l].nowRunMode = "start"
    /\ (l \notin DOMAIN liveEvents \/ liveEvents[l].nowRunMode # "start")

\* after this step a is queued before b in some chain
QueuedBefore(a, b) ==
    \E c \in DOMAIN chains' :
        \E i, j \in 1..Len(chains'[c].liveEventIds) :
            i < j /\ chains'[c].liveEventIds[i] = a /\ chains'[c].liveEventIds[j] = b

\* the non-parallel events of chain c that have been started and are still queued
StartedNonParallel(c) ==
    {l \in SeqRange(chains[c].liveEventIds) :
        /\ l \in DOMAIN liveEvents
        /\ ~liveEvents[l].isParallel
        /\ liveEvents[l].startTime # NullTime}

\* C3: each chain holds at most one non-parallel live event that has been
\* started (startTime set) and has not yet been removed from the queue.
C3_OneActiveNonParallel ==
    \A c \in DOMAIN chains : Cardinality(StartedNonParallel(c)) <= 1

\* l is in the queue of some chain
Queued(l) == \E c \in DOMAIN chains : l \in SeqRange(chains[c].liveEventIds)

\* the handler of l has run for "cancel"
Cancelled(l) == Invocations(l, "cancel") # {}

ResumePrograms == {<<Log(FALSE), Log(FALSE)>>, <<Log(TRUE), Log(TRUE), Log(FALSE)>>}

InitResume ==
    /\ Constructed
    /\ limits = Limits(MaxResumeCalls, MaxResumeTicks, MaxResumeEvents, 0, FALSE)

NextResume ==
    \/ \E events \in ResumePrograms : RunEvents(events)
    \/ \E runMode \in {"pause", "unpause"}, liveId \in KnownLiveIds : EventDo(runMode, liveId)
    \/ \E runMode \in {"pause", "unpause"} : ChainDo(runMode, DefaultChain)
    \/ SetElapsedTime(1)
    \/ Engine

SpecResume == InitResume /\ [][NextResume]_vars

\* C1: of two non-parallel live events A and B of a chain with A queued before B,
\* B's nowRunMode is never set to "start" while A is still in the queue.
C1_NonParallelOrder ==
    [][\A a, b \in DOMAIN liveEvents' :
          (QueuedBefore(a, b) /\ ~liveEvents'[a].isParallel /\ ~liveEvents'[b].isParallel)
          => ~BecomesStart(b)]_vars

\* the queue of chain c begins with k parallel events followed by the
\* non-parallel n, all of them in "add"
BurstBefore(c, k, n) ==
    LET ids == chains[c].liveEventIds IN
    /\ k >= 1 /\ Len(ids) > k /\ ids[k + 1] = n
    /\ \A i \in 1..(k + 1) : ids[i] \in DOMAIN liveEvents /\ liveEvents[ids[i]].nowRunMode = "add"
    /\ \A i \in 1..k : liveEvents[ids[i]].isParallel
    /\ ~liveEvents[n].isParallel

\* l entered its queue in "add": the first run of its handler was for "add"
EnteredInAdd(l) ==
    \E i \in Invocations(l, "add") : \A j \in 1..(i - 1) : handlerLog[j].liveId # l

\* C2: when a queue begins with a run of parallel events followed by the
\* non-parallel N, all in "add", the step that sets one of the parallel events to
\* "start" sets all of them and leaves N in "add"; and afterwards N is not set to
\* "start" while one of those started parallel events is still queued before it.
C2_ParallelBurst ==
    [][/\ \A c \in DOMAIN chains : \A k \in 1..MaxEvents : \A n \in DOMAIN liveEvents :
            (BurstBefore(c, k, n) /\ \E i \in 1..k : BecomesStart(chains[c].liveEventIds[i]))
            => /\ \A i \in 1..k : BecomesStart(chains[c].liveEventIds[i])
               /\ n \in DOMAIN liveEvents' /\ liveEvents'[n].nowRunMode = "add"
       /\ \A a, n \in DOMAIN liveEvents :
            (/\ QueuedBefore(a, n) /\ liveEvents[a].isParallel /\ ~liveEvents[n].isParallel
             /\ EnteredInAdd(a) /\ EnteredInAdd(n)
             /\ liveEvents[a].nowRunMode = "start")
            => ~BecomesStart(n)]_vars

(***************************************************************************)
(* A pause and unpause round trip of one wait event                         *)
(***************************************************************************)
InitPause ==
    /\ Constructed
    /\ limits = Limits(MaxPauseCalls, MaxPauseTicks, MaxPauseEvents, MaxSkew, FALSE)

\* the wait event has started and its goal is still ahead
RunningWait(l) ==
    /\ l \in DOMAIN liveEvents
    /\ liveEvents[l].nowRunMode = "start"
    /\ liveEvents[l].startTime # NullTime
    /\ liveEvents[l].goalEndTime > elapsedTime

\* the host runs one wait, pauses it once while it runs and unpauses it once;
\* each call and each tick is made after the frames have settled
NextPause ==
    \/ calls = 0 /\ RunEvents(<<Wait(WaitDuration)>>)
    \/ /\ calls = 1 /\ Quiescent /\ RunningWait(LiveIdOf[1])
       /\ ChainDo("pause", DefaultChain)
    \/ /\ calls = 1 /\ Quiescent /\ RunningWait(LiveIdOf[1])
       /\ EventDo("pause", LiveIdOf[1])
    \/ /\ calls = 2 /\ Quiescent
       /\ LiveIdOf[1] \in DOMAIN liveEvents /\ liveEvents[LiveIdOf[1]].nowRunMode = "pause"
       /\ ChainDo("unpause", DefaultChain)
    \/ Quiescent /\ SetElapsedTime(1)
    \/ Quiescent /\ WallClock
    \/ Engine

SpecPause == InitPause /\ [][NextPause]_vars

\* the elapsed time at which l, paused in run ps and unpaused in run up of the
\* handler log, is due: u + (G - p)
ResumedGoal(ps, up) ==
    handlerLog[up].elapsedTime + (handlerLog[ps].goalEndTime - handlerLog[ps].elapsedTime)

\* C4: a started event with goalEndTime G, paused at elapsed time p and unpaused
\* at elapsed time u, is ended exactly at elapsed time u + (G - p): its "end" run
\* happens at that elapsed time, and it is no longer live once the elapsed time
\* has reached it.
C4_PauseTransparent ==
    \A l \in AllLiveIds :
        \A ps \in Invocations(l, "pause") : \A up \in Invocations(l, "unpause") :
            ps < up =>
                /\ \A e \in Invocations(l, "end") :
                        e > up => handlerLog[e].elapsedTime = ResumedGoal(ps, up)
                /\ (Quiescent /\ elapsedTime >= ResumedGoal(ps, up)) => l \notin DOMAIN liveEvents

(***************************************************************************)
(* Parent events and their sub-chains                                       *)
(***************************************************************************)
SubPrograms ==
    {<<Log(FALSE), ParentOnAdd("two", 1)>>,
     <<Log(FALSE), ParentOnAdd("one", NullDuration)>>,
     <<ParentOnAdd("one", 1)>>,
     <<ParentOnStart("two", NullDuration)>>,
     <<ParentOnStart("one", 1)>>}

InitSub ==
    /\ Constructed
    /\ limits = Limits(MaxSubCalls, MaxSubTicks, MaxSubEvents, 0, FALSE)

\* the host runs one list that holds a parent event, may cancel or pause the
\* events of the parent's sub-chain once, and ticks the clock
NextSub ==
    \/ calls = 0 /\ \E events \in SubPrograms : RunEvents(events)
    \/ /\ calls = 1 /\ Quiescent
       /\ \E parent \in DOMAIN liveEvents \cap DOMAIN chains :
             \E runMode \in {"cancel", "pause"} : ChainDo(runMode, parent)
    \/ \E dt \in {1, DurationScale} : Quiescent /\ SetElapsedTime(dt)
    \/ Engine

SpecSub == InitSub /\ [][NextSub]_vars

\* P is live and its sub-chain has queued events
HasQueuedSubChain(P) ==
    /\ P \in DOMAIN liveEvents
    /\ P \in DOMAIN chains
    /\ chains[P].liveEventIds # <<>>

\* C5: a live event whose sub-chain has queued events keeps goalEndTime at
\* Infinity and is not set to "end", whatever its duration and whether the
\* sub-events were added at its add or at its start.
C5_ParentWaitsForSubChain ==
    \A P \in AllLiveIds :
        HasQueuedSubChain(P) =>
            /\ liveEvents[P].goalEndTime = Infinity
            /\ liveEvents[P].nowRunMode # "end"

\* C6: no live event waits on a sub-chain that no longer exists: once the frames
\* have settled, a live event whose goalEndTime is Infinity has a sub-chain with
\* queued events, and a started one without sub-chain is ended by the next tick.
C6_ParentEndsWithSubChain ==
    Quiescent =>
        \A P \in DOMAIN liveEvents :
            liveEvents[P].goalEndTime = Infinity => HasQueuedSubChain(P)

(***************************************************************************)
(* Events whose parameter is a getEventValue value block                    *)
(***************************************************************************)
ValuePrograms ==
    {<<UseValue("return")>>,
     <<Log(FALSE), UseValue("return")>>,
     <<UseValue("logThenReturn")>>,
     <<UseValue("noReturn")>>,
     <<Log(FALSE), UseValue("noReturn")>>}

InitValue ==
    /\ Constructed
    /\ limits = Limits(MaxValueCalls, MaxValueTicks, MaxValueEvents, 0, TRUE)

\* the host runs one list that holds an event with a getEventValue parameter
\* and ticks the clock
NextValue ==
    \/ \E events \in ValuePrograms : RunEvents(events)
    \/ SetElapsedTime(1)
    \/ Engine

SpecValue == InitValue /\ [][NextValue]_vars

\* a returnValue event has run its first start
ReturnValueRan ==
    \E j \in 1..Len(handlerLog) :
        handlerLog[j].name = "returnValue" /\ handlerLog[j].runMode = "start"

\* nothing is left to run: the frames have settled and no awaited promise is resolved
Settled ==
    /\ Quiescent
    /\ \A i \in 1..Len(microtasks) : ~Ready(promises, microtasks[i])

\* C7: when the sub-chain that a getEventValue parameter launches runs a
\* returnValue event with value v, every run of the parent event's handler gets
\* exactly v for that parameter, and the handler has run once all is settled.
C7_ReturnValueRoundTrip ==
    ReturnValueRan =>
        /\ \A i \in 1..Len(handlerLog) :
                (handlerLog[i].name = "useValue" /\ handlerLog[i].prog \in {"return", "logThenReturn"})
                => handlerLog[i].p = ReturnedValue
        /\ Settled => \E i \in 1..Len(handlerLog) : handlerLog[i].name = "useValue"

\* the returnValue event of the launched sub-chain has run and the parent's
\* handler has run for "start" with the returned value
C7_Witness ==
    /\ ReturnValueRan
    /\ \E i \in 1..Len(handlerLog) :
        /\ handlerLog[i].name = "useValue"
        /\ handlerLog[i].runMode = "start"
        /\ handlerLog[i].p = ReturnedValue

\* C8: when the sub-chain launched by getEventValue has drained without a
\* returnValue event, the awaited parameter has been resolved (to undefined):
\* once all is settled no handler still awaits a parameter whose chain is gone,
\* and every run of the parent's handler got undefined.
C8_DrainResolvesUndefined ==
    /\ \A i \in 1..Len(handlerLog) :
            (handlerLog[i].name = "useValue" /\ handlerLog[i].prog = "noReturn")
            => handlerLog[i].p = Undefined
    /\ Settled =>
            \A i \in 1..Len(microtasks) :
                (microtasks[i].b.name = "useValue" /\ microtasks[i].b.prog = "noReturn")
                => ValueIdOf(microtasks[i].liveEventId) \in DOMAIN chains

(***************************************************************************)
(* skipToEvent on a list that has just been run                             *)
(***************************************************************************)
InitSkip ==
    /\ Constructed
    /\ limits = Limits(MaxSkipCalls, MaxSkipTicks, MaxSkipEvents, 0, TRUE)

\* the host runs [e0, e1, e2] and, before any frame has run, skips to e1;
\* the clock ticks at any time
NextSkip ==
    \/ calls = 0 /\ RunEvents(<<Log(FALSE), Log(FALSE), Log(FALSE)>>)
    \/ /\ calls = 1 /\ liveEvents = EmptyMap /\ setStatesQueue = <<>> /\ nextTickQueue # <<>>
       /\ SkipToEvent(LiveIdOf[2])
    \/ SetElapsedTime(1)
    \/ Engine

SpecSkip == InitSkip /\ [][NextSkip]_vars

\* C9: after runEvents([e0, e1, e2]) and skipToEvent(e1) before e0 has started,
\* e0's handler runs for "skip" exactly once and never for "start"; e1 is not
\* skipped but started; e2 is not started before e1 has ended.
C9_SkipToEvent ==
    calls = 2 =>
        /\ Invocations(LiveIdOf[1], "start") = {}
        /\ Cardinality(Invocations(LiveIdOf[1], "skip")) <= 1
        /\ Invocations(LiveIdOf[2], "skip") = {}
        /\ Invocations(LiveIdOf[3], "start") # {} => Invocations(LiveIdOf[2], "end") # {}
        /\ Quiescent =>
              /\ Cardinality(Invocations(LiveIdOf[1], "skip")) = 1
              /\ Invocations(LiveIdOf[2], "start") # {}

(***************************************************************************)
(* Priority insertion into a chain that is already running                  *)
(***************************************************************************)
PriorityPrograms == {<<Log(FALSE), Log(FALSE)>>, <<Log(TRUE)>>}

InitPriority ==
    /\ Constructed
    /\ limits = Limits(MaxPriorityCalls, MaxPriorityTicks, MaxPriorityEvents, 0, FALSE)

\* the host runs a list, lets the frames settle, and then runs a second list
\* with hasPriority into the same chain
NextPriority ==
    \/ calls = 0 /\ \E events \in ResumePrograms : RunEvents(events)
    \/ /\ calls = 1 /\ Quiescent /\ DefaultChain \in DOMAIN chains
       /\ \E events \in PriorityPrograms : RunPriorityEvents(events)
    \/ Quiescent /\ SetElapsedTime(1)
    \/ Engine

SpecPriority == InitPriority /\ [][NextPriority]_vars

\* the queue of chain c, empty when the chain is not in the store
QueueOf(ch, c) == IF c \in DOMAIN ch THEN ch[c].liveEventIds ELSE <<>>

\* how many events at the head of the queue of c have been started
RECURSIVE StartedPrefix(_, _)
StartedPrefix(ids, i) ==
    IF i > Len(ids) THEN Len(ids)
    ELSE IF ids[i] \in DOMAIN liveEvents /\ liveEvents[ids[i]].startTime # NullTime
         THEN StartedPrefix(ids, i + 1)
         ELSE i - 1

\* the live ids the host gave to the n events of its last call, in the order of the call
LastGiven(n) == [i \in 1..n |-> LiveIdOf[nextLiveId - n + i]]

\* C11: the step that puts the events X of a priority call into a chain whose
\* first k events have been started leaves the queue as its first k ids, then
\* the ids of X in order, then the rest of the old queue in its old order.
C11_PriorityInsert ==
    [][LET old == QueueOf(chains, DefaultChain)
           new == QueueOf(chains', DefaultChain)
           k == StartedPrefix(old, 1)
           X == SelectSeq(new, LAMBDA l : l \notin SeqRange(old))
       IN  (calls = 2 /\ old # <<>> /\ X # <<>>)
           => /\ X = LastGiven(Len(X))
              /\ new = SubSeq(old, 1, k) \o X \o SubSeq(old, k + 1, Len(old))]_vars

(***************************************************************************)
(* Events added with a liveId that is already in use                        *)
(***************************************************************************)
\* the event the host adds under a live id it has used before
Duplicate(liveId) ==
    Block("log", FALSE, NullDuration, Undefined, Undefined, "duplicate", liveId)

\* runEvents([event with options.liveId], { chainId })
RunEventsWithLiveId(event, chainId) ==
    /\ CanCall
    /\ event.liveId \in {LiveIdOf[i] : i \in 1..nextLiveId}
    /\ HostCall(runEvents(St, Env, <<event>>, EventBlockOptions(Null, chainId, Null, FALSE)))
    /\ UNCHANGED nextLiveId

InitDuplicate ==
    /\ Constructed
    /\ limits = Limits(MaxDuplicateCalls, MaxDuplicateTicks, MaxDuplicateEvents, 0, FALSE)

\* the host runs one or two events in the default chain and later adds events
\* under their live ids, into the same chain or into another one
NextDuplicate ==
    \/ calls = 0 /\ \E events \in {<<Log(FALSE)>>, <<Log(FALSE), Log(FALSE)>>} : RunEvents(events)
    \/ /\ calls >= 1
       /\ \E i \in 1..nextLiveId, chainId \in {DefaultChain, OtherChain} :
             RunEventsWithLiveId(Duplicate(LiveIdOf[i]), chainId)
    \/ SetElapsedTime(1)
    \/ Engine

SpecDuplicate == InitDuplicate /\ [][NextDuplicate]_vars

\* this step applies the queued store updates
AppliesQueue == setStatesQueue # <<>> /\ setStatesQueue' = <<>>

\* how many times l is in the queues of the chains ch
Entries(ch, l) ==
    Cardinality({<<c, i>> \in (DOMAIN ch) \X (1..(2 * MaxEvents)) :
                    i <= Len(ch[c].liveEventIds) /\ ch[c].liveEventIds[i] = l})

\* event d is parked in chain c of the chains ch
Parked(ch, c, d) ==
    /\ c \in DOMAIN ch
    /\ \E i \in 1..Len(ch[c].duplicateEventsToAdd) : ch[c].duplicateEventsToAdd[i] = d

\* C12: when the events of an _addEvents call are put into their chain, an event
\* whose liveId L is that of a live event in the store gets no queue entry, is
\* parked in the target chain's duplicateEventsToAdd under L, and the existing
\* live event L has nowRunMode "cancel".
C12_DuplicateParked ==
    [][AppliesQueue =>
        \A i \in 1..Len(setStatesQueue) :
            LET op == setStatesQueue[i] IN
            op.kind = "setChainLiveEventIds" =>
                \A j \in 1..Len(op.a.duplicates) :
                    LET d == op.a.duplicates[j]
                        L == d.liveId
                    IN  L \in DOMAIN liveEvents =>
                            /\ L \notin SeqRange(op.a.newLiveIds)
                            /\ Entries(chains', L) <= Entries(chains, L)
                            /\ Parked(chains', op.id, d)
                            /\ L \in DOMAIN liveEvents' => liveEvents'[L].nowRunMode = "cancel"]_vars

\* a live event in "cancel" that is still queued once, with an event parked
\* under its live id
C12_Witness ==
    \E L \in DOMAIN liveEvents : \E c \in DOMAIN chains :
        /\ liveEvents[L].nowRunMode = "cancel"
        /\ liveEvents[L].event.prog # "duplicate"
        /\ Parked(chains, c, Duplicate(L))
        /\ Entries(chains, L) = 1

\* the events parked in the chains ch, each with the chain that holds it
ParkedIn(ch) ==
    {<<c, ch[c].duplicateEventsToAdd[i]>> :
        <<c, i>> \in {x \in (DOMAIN ch) \X (1..(2 * MaxEvents)) :
                        x[2] <= Len(ch[x[1]].duplicateEventsToAdd)}}

\* an _addEvents of d alone to the tail of chain c waits for the next tick
ReAddScheduled(nt, c, d) ==
    \E i \in 1..Len(nt) :
        /\ nt[i].kind = "addTheLiveEvents"
        /\ nt[i].a.eventBlocks = <<d>>
        /\ nt[i].a.chainId = c
        /\ ~nt[i].a.hasPriority

\* C13: a parked event is never lost: its entry leaves duplicateEventsToAdd only
\* when the live event of its liveId has left the store and the parked event
\* is on its way to the tail of its chain; and no entry is left parked once the
\* frames have settled.
C13_ParkedReAdded ==
    /\ [](Quiescent => ParkedIn(chains) = {})
    /\ [][\A x \in ParkedIn(chains) :
            x \notin ParkedIn(chains')
            => /\ x[2].liveId \notin DOMAIN liveEvents'
               /\ ReAddScheduled(nextTickQueue', x[1], x[2])]_vars

\* the handler of l has run for "end", "cancel" or "skip": finalizeEvent was called for l
FinalRun(l) ==
    \E i \in 1..Len(handlerLog) :
        handlerLog[i].liveId = l /\ handlerLog[i].runMode \in {"end", "cancel", "skip"}

\* the queue update of finalizeEvent for l has not been applied yet
FinalizePending(l) ==
    \E i \in 1..Len(setStatesQueue) :
        setStatesQueue[i].kind = "finalize" /\ setStatesQueue[i].id = l

C15_NoEmptyChain ==
    phase \notin {"set", "effects"} => \A c \in DOMAIN chains : chains[c].liveEventIds # <<>>

\* the only event of the default chain has been finalized and removed, and
\* the chain is gone
C15_Witness ==
    /\ Quiescent
    /\ DefaultChain \notin DOMAIN chains
    /\ FinalRun(LiveIdOf[1])
    /\ LiveIdOf[1] \notin DOMAIN liveEvents

(***************************************************************************)
(* runEvent and the value it returns                                        *)
(***************************************************************************)
\* runEvent(group, name, params, { liveId, chainId }); giveLiveId says whether
\* the host passes options.liveId
RunEvent(event, giveLiveId, chainId) ==
    /\ CanCall
    /\ giveLiveId => nextLiveId < limits.events
    /\ nextLiveId' = IF giveLiveId THEN nextLiveId + 1 ELSE nextLiveId
    /\ LET liveId == IF giveLiveId THEN LiveIdOf[nextLiveId + 1] ELSE Null
           r == runEvent(St, Env, event, EventBlockOptions(liveId, chainId, Null, FALSE))
       IN  HostCallReturning(r.E, r.realLiveId)

InitRunEvent ==
    /\ Constructed
    /\ limits = Limits(MaxRunEventCalls, MaxRunEventTicks, MaxRunEventEvents, 0, FALSE)

\* the host calls runEvent, with or without options.liveId, each time after
\* the frames have settled
NextRunEvent ==
    \/ /\ Quiescent
       /\ \E giveLiveId \in BOOLEAN, chainId \in {DefaultChain, OtherChain} :
             RunEvent(Log(FALSE), giveLiveId, chainId)
    \/ Quiescent /\ SetElapsedTime(1)
    \/ Engine

SpecRunEvent == InitRunEvent /\ [][NextRunEvent]_vars

\* C16: the live event that enters the store after a runEvent call has the id
\* the call returned (options.liveId when the host gave one).
C16_RunEventReturnsLiveId ==
    [][\A l \in DOMAIN liveEvents' \ DOMAIN liveEvents : returned = l]_vars

(***************************************************************************)
(* chainDo("pause") called twice in one tick                                *)
(***************************************************************************)
\* the queued update of a chainDo("pause", c)
IsChainPause(op) ==
    /\ op.kind = "runEventsInMode"
    /\ op.a.runMode = "pause"
    /\ op.a.chainId = DefaultChain
    /\ ~op.a.hasTargets

\* the queue q without its i-th update
WithoutOp(q, i) == SubSeq(q, 1, i - 1) \o SubSeq(q, i + 1, Len(q))

\* the updates of two chainDo("pause", c) calls of one tick are queued at i and i + 1
PausedTwiceAt(i) ==
    /\ i < Len(setStatesQueue)
    /\ IsChainPause(setStatesQueue[i])
    /\ IsChainPause(setStatesQueue[i + 1])

\* C17: when chainDo("pause", c) was called twice in one tick, the loop that
\* applies the two updates leaves the chains and the live events (nowRunMode,
\* runModeBeforePause and every other field) as the loop with one of them
\* does, and the same effect runs are due, so the handlers run as often.
C17_PauseTwiceAsOnce ==
    \A i \in 1..Len(setStatesQueue) :
        PausedTwiceAt(i) =>
            LET twice == RunQueue(St, setStatesQueue)
                once == RunQueue(St, WithoutOp(setStatesQueue, i + 1))
            IN  /\ twice = once
                /\ EffectsDue(St, twice, watchers) = EffectsDue(St, once, watchers)

\* two pause updates are queued for a chain with an event that is not paused
C17_Witness ==
    /\ \E i \in 1..Len(setStatesQueue) : PausedTwiceAt(i)
    /\ DefaultChain \in DOMAIN chains
    /\ \E l \in SeqRange(chains[DefaultChain].liveEventIds) :
          l \in DOMAIN liveEvents /\ liveEvents[l].nowRunMode = "start"

(***************************************************************************)
(* Variables in chains and in named scopes                                  *)
(***************************************************************************)
VariableNames == {"x"}
VariableValues == {1, 2, Undefined}
VariableScopes == {GlobalScope, DefaultChain, OtherChain}

\* setVariable(name, value, scope)
SetVariable(name, value, scope) ==
    /\ CanCall
    /\ LET r == setVariable(St, Env, variablesByScopesMap, name, value, scope) IN
       /\ SetEnv(r.E)
       /\ variablesByScopesMap' = r.scopes
    /\ calls' = calls + 1
    /\ phase' = IF limits.betweenFrames THEN "idle" ELSE "host"
    /\ UNCHANGED <<chains, liveEvents, elapsedTime, pendingEffects, nextLiveId, dateNow, skew,
                   ticks, returned, givenParams, evaluatedParams, limits>>

\* runEvents(events, { chainId, parentChainId })
RunEventsInChildChain(events, chainId, parentChainId) ==
    /\ CanCall
    /\ nextLiveId + Len(events) <= limits.events
    /\ nextLiveId' = nextLiveId + Len(events)
    /\ HostCall(runEvents(St, Env, GiveLiveIds(events, nextLiveId),
                          EventBlockOptions(Null, chainId, parentChainId, FALSE)))

InitVariable ==
    /\ Constructed
    /\ limits = Limits(MaxVariableCalls, MaxVariableTicks, MaxVariableEvents, 0, FALSE)

\* the host runs an event in chain c and one in chain d, whose parent is c, and
\* sets the variable in the scopes "global", c and d at any time
NextVariable ==
    \/ nextLiveId = 0 /\ RunEvents(<<Log(FALSE)>>)
    \/ nextLiveId = 1 /\ RunEventsInChildChain(<<Log(FALSE)>>, OtherChain, DefaultChain)
    \/ \E name \in VariableNames, value \in VariableValues, scope \in VariableScopes :
          SetVariable(name, value, scope)
    \/ Quiescent /\ SetElapsedTime(1)
    \/ Engine

SpecVariable == InitVariable /\ [][NextVariable]_vars

\* the chains on the way from chain s up its parents, as far as they are in the store
RECURSIVE Ancestry(_, _, _)
Ancestry(ch, s, n) ==
    IF n = 0 \/ s = Null \/ s \notin DOMAIN ch THEN <<>>
    ELSE <<s>> \o Ancestry(ch, ch[s].parentChainId, n - 1)

\* the walk from s reaches c, and no chain before c on the walk has the variable
ReachesFirst(ch, s, c, name) ==
    LET walk == Ancestry(ch, s, Cardinality(DOMAIN ch)) IN
    \E i \in 1..Len(walk) :
        /\ walk[i] = c
        /\ \A j \in 1..(i - 1) : name \notin DOMAIN ch[walk[j]].variablesByName

\* no chain on the walk from s has the variable
NoneDefines(ch, s, name) ==
    LET walk == Ancestry(ch, s, Cardinality(DOMAIN ch)) IN
    \A i \in 1..Len(walk) : name \notin DOMAIN ch[walk[i]].variablesByName

\* the entry of the scope map for scope s, undefined when there is none
ScopeEntry(scopes, s, name) ==
    IF s \in DOMAIN scopes /\ name \in DOMAIN scopes[s] THEN scopes[s][name] ELSE Undefined

\* the update at i is the last queued setVariable of that name for that chain
LastSetVariable(q, i) ==
    /\ q[i].kind = "setVariable"
    /\ \A j \in (i + 1)..Len(q) :
          ~(q[j].kind = "setVariable" /\ q[j].id = q[i].id /\ q[j].a.name = q[i].a.name)

\* C18: once the update of setVariable(n, v, c) for an existing chain c has
\* been applied, getVariable(n, s) is v for s = c and for every chain s whose
\* parents lead to c with no nearer chain that has n; and when no chain on the
\* way up from s has n, getVariable(n, s) is the entry of the scope map for s,
\* or undefined, whatever other chains hold.
C18_VariableScopes ==
    /\ [][AppliesQueue =>
            \A i \in 1..Len(setStatesQueue) :
                LET op == setStatesQueue[i] IN
                (LastSetVariable(setStatesQueue, i) /\ op.id \in DOMAIN chains')
                => \A s \in DOMAIN chains' :
                      ReachesFirst(chains', s, op.id, op.a.name)
                      => getVariable([chains |-> chains', liveEvents |-> liveEvents',
                                      elapsedTime |-> elapsedTime'],
                                     variablesByScopesMap', op.a.name, s) = op.a.value]_vars
    /\ [](\A s \in VariableScopes, name \in VariableNames :
            NoneDefines(chains, s, name)
            => getVariable(St, variablesByScopesMap, name, s)
                 = ScopeEntry(variablesByScopesMap, s, name))

(***************************************************************************)
(* returnValue followed by further events in the chain of a getEventValue   *)
(***************************************************************************)
ReturnPrograms ==
    {<<UseValue("returnThenLog")>>, <<Log(FALSE), UseValue("returnThenLog")>>}

InitReturn ==
    /\ Constructed
    /\ limits = Limits(MaxReturnCalls, MaxReturnTicks, MaxReturnEvents, 0, TRUE)

\* the host runs a list with an event whose parameter launches
\* [returnValue(v), log], and ticks the clock
NextReturn ==
    \/ \E events \in ReturnPrograms : RunEvents(events)
    \/ SetElapsedTime(1)
    \/ Engine

SpecReturn == InitReturn /\ [][NextReturn]_vars

\* the nearest chain on the way from chain c up its parents that has an entry
\* in resolveValueMap; Null when there is none
NearestWithResolver(c) ==
    LET walk == Ancestry(chains, c, Cardinality(DOMAIN chains))
        hits == {i \in 1..Len(walk) : walk[i] \in DOMAIN resolveValueMap}
    IN  IF hits = {} THEN Null ELSE walk[CHOOSE i \in hits : \A j \in hits : i <= j]

\* a chainDo("cancel", k) waits for the next tick
CancelScheduled(nt, k) ==
    \E i \in 1..Len(nt) :
        /\ nt[i].kind = "runEventsInMode"
        /\ nt[i].a.runMode = "cancel"
        /\ nt[i].a.chainId = k

\* this step runs the handler of a returnValue event for its first start
ReturnValueStarts ==
    /\ Len(handlerLog') = Len(handlerLog) + 1
    /\ handlerLog'[Len(handlerLog')].name = "returnValue"
    /\ handlerLog'[Len(handlerLog')].runMode = "start"

\* C19: when a returnValue event with value v starts for the first time in
\* chain c, the promise of the nearest chain on the way up from c that has a
\* resolver is settled, with v if it was still pending, and the events of that
\* chain are cancelled: none of the events queued behind the returnValue event
\* runs its handler for "start".
C19_ReturnValueResolvesNearest ==
    /\ [][ReturnValueStarts =>
            LET r == handlerLog'[Len(handlerLog')]
                k == NearestWithResolver(r.chainId)
            IN  k # Null =>
                    /\ promises'[resolveValueMap[k]].done
                    /\ ~promises[resolveValueMap[k]].done
                         => promises'[resolveValueMap[k]].value = r.p
                    /\ CancelScheduled(nextTickQueue', k)]_vars
    /\ [](\A i \in 1..Len(handlerLog) :
            (handlerLog[i].name = "log" /\ handlerLog[i].chainId \in DOMAIN resolveValueMap)
            => handlerLog[i].runMode # "start")

(***************************************************************************)
(* Evaluating params: raw values, plain containers and ValueBlocks          *)
(***************************************************************************)
\* JavaScript values: a string is the sequence of its pieces, an object the
\* map of its properties, an array the sequence of its items
Str(s) == [kind |-> "string", s |-> s]
Obj(fields) == [kind |-> "object", fields |-> fields]
Arr(items) == [kind |-> "array", items |-> items]

\* { type: "value", group: "basic", name, params, options: {} }
ValueBlock(name, params) ==
    Obj([type |-> Str(<<"value">>), group |-> Str(<<"basic">>), name |-> Str(<<name>>),
         params |-> Obj(params), options |-> Obj(EmptyMap)])

\* the same block made without params
ValueBlockWithoutParams(name) ==
    Obj([type |-> Str(<<"value">>), group |-> Str(<<"basic">>), name |-> Str(<<name>>),
         options |-> Obj(EmptyMap)])

isValueBlock(value) ==
    /\ value.kind = "object"
    /\ "type" \in DOMAIN value.fields
    /\ value.fields["type"] = Str(<<"value">>)
    /\ "group" \in DOMAIN value.fields
    /\ "name" \in DOMAIN value.fields

\* what + makes of an operand that is not a number: the string itself, the
\* items of an array joined with commas, "[object Object]" for an object
RECURSIVE ToPrimitive(_)
ToPrimitive(value) ==
    CASE value.kind = "string" -> value.s
      [] value.kind = "object" -> <<"[object Object]">>
      [] value.kind = "array" ->
            IF value.items = <<>> THEN <<>>
            ELSE IF Len(value.items) = 1 THEN ToPrimitive(value.items[1])
            ELSE ToPrimitive(value.items[1]) \o <<",">> \o ToPrimitive(Arr(Tail(value.items)))

\* the params given when no params are given
paramsWithDefaultsTakingDefaults(defaults, given) ==
    [k \in DOMAIN defaults \cup DOMAIN given |->
        IF k \in DOMAIN defaults THEN defaults[k] ELSE given[k]]

\* { ...valueDefinition.params, ...valueBlock.params }
paramsWithDefaults(defaults, given) ==
    [k \in DOMAIN defaults \cup DOMAIN given |->
        IF k \in DOMAIN given THEN given[k] ELSE defaults[k]]

\* valueDefinition.params
ValueDefaults(name) ==
    CASE name = "combine" -> [valueA |-> Str(<<>>), valueB |-> Str(<<>>)]
      [] name = "string" -> [value |-> Str(<<>>)]
      [] name = "getMyChainId" -> EmptyMap

\* valueDefinition.run(evaluatedParams, valueRunInfo)
ValueRun(name, params, valueRunInfo) ==
    CASE name = "combine" ->
            Str(ToPrimitive(params["valueA"]) \o ToPrimitive(params["valueB"]))
      [] name = "string" -> params["value"]
      [] name = "getMyChainId" -> Str(<<valueRunInfo.parentChainId>>)

\* the name of the value type a ValueBlock is of
ValueNameOf(valueBlock) == valueBlock.fields["name"].s[1]

\* valueBlock.params, {} when the block has none
ValueParamsOf(valueBlock) ==
    IF "params" \in DOMAIN valueBlock.fields THEN valueBlock.fields["params"].fields ELSE EmptyMap

getValueRunInfoForParam(info, key) ==
    [parentChainId |-> info.parentChainId, valueId |-> Append(info.valueIdBase, key)]

getEvaluateParamsInfoFromValueRunInfo(valueRunInfo) ==
    [parentChainId |-> valueRunInfo.parentChainId, valueIdBase |-> valueRunInfo.valueId]

RECURSIVE evaluateValue(_, _)
RECURSIVE evaluateParams(_, _)
RECURSIVE evaluateValueBlock(_, _)

evaluateValue(rawValue, valueRunInfo) ==
    IF rawValue.kind = "string" THEN rawValue
    ELSE IF isValueBlock(rawValue) THEN evaluateValueBlock(rawValue, valueRunInfo)
    ELSE rawValue

evaluateParams(params, info) ==
    [key \in DOMAIN params |-> evaluateValue(params[key], getValueRunInfoForParam(info, key))]

evaluateValueBlock(valueBlock, valueRunInfo) ==
    LET name == ValueNameOf(valueBlock)
        evaluated == evaluateParams(paramsWithDefaults(ValueDefaults(name), ValueParamsOf(valueBlock)),
                                    getEvaluateParamsInfoFromValueRunInfo(valueRunInfo))
    IN  ValueRun(name, evaluated, valueRunInfo)

\* the values the host puts into params, nesting at most depth levels
RECURSIVE ValuesOfDepth(_)
ValuesOfDepth(depth) ==
    IF depth = 0 THEN {Str(<<>>), Str(<<"a">>)}
    ELSE LET inner == ValuesOfDepth(depth - 1) IN
         {Str(<<>>), Str(<<"a">>), ValueBlockWithoutParams("string"),
          ValueBlock("getMyChainId", EmptyMap)}
         \cup {ValueBlock("string", [value |-> v]) : v \in inner}
         \cup {ValueBlock("combine", [valueA |-> v]) : v \in inner}
         \cup {Obj([k |-> v]) : v \in inner}
         \cup {Arr(<<v>>) : v \in inner}

\* the params maps of the host: one param or two
ParamMaps ==
    {[p |-> v] : v \in ValuesOfDepth(MaxValueDepth)}
    \cup {[p |-> v, q |-> w] : v, w \in ValuesOfDepth(MaxValueDepth)}

\* the info of the caller: the params are those of live event e1 of chain c
ParamsInfo == [parentChainId |-> DefaultChain, valueIdBase |-> <<"e1">>]

InitEvaluate ==
    /\ ConstructedStores
    /\ givenParams \in ParamMaps
    /\ limits = Limits(0, 0, 0, 0, TRUE)

\* evaluateParams(params, info)
EvaluateParams ==
    /\ evaluatedParams = <<>>
    /\ evaluatedParams' = <<evaluateParams(givenParams, ParamsInfo)>>
    /\ UNCHANGED <<chains, liveEvents, elapsedTime, setStatesQueue, nextTickQueue, microtasks,
                   pendingEffects, watchers, resolveValueMap, promises, handlerLog, thrown, fastChain, nextGenId,
                   nextLiveId, dateNow, skew, phase, calls, ticks, returned,
                   variablesByScopesMap, givenParams, limits>>

NextEvaluate == EvaluateParams

SpecEvaluate == InitEvaluate /\ [][NextEvaluate]_vars

\* a ValueBlock, told by its tag
IsBlock(v) == v.kind = "object" /\ "type" \in DOMAIN v.fields /\ v.fields["type"] = Str(<<"value">>)

\* the run of the block's type on the params it is given, merged over the defaults
RunOf(block, params) ==
    LET name == block.fields["name"].s[1]
        defaults == ValueDefaults(name)
        merged == [k \in DOMAIN defaults \cup DOMAIN params |->
                      IF k \in DOMAIN params THEN params[k] ELSE defaults[k]]
    IN  ValueRun(name, merged, [parentChainId |-> DefaultChain])

GivenTo(block) ==
    IF "params" \in DOMAIN block.fields THEN block.fields["params"].fields ELSE EmptyMap

\* v with every ValueBlock in it replaced, those inside plain objects and
\* arrays too
RECURSIVE ReplacedAtAnyDepth(_)
ReplacedAtAnyDepth(v) ==
    IF v.kind = "string" THEN v
    ELSE IF v.kind = "array" THEN Arr([i \in 1..Len(v.items) |-> ReplacedAtAnyDepth(v.items[i])])
    ELSE IF IsBlock(v)
         THEN RunOf(v, [k \in DOMAIN GivenTo(v) |-> ReplacedAtAnyDepth(GivenTo(v)[k])])
    ELSE Obj([k \in DOMAIN v.fields |-> ReplacedAtAnyDepth(v.fields[k])])

\* v replaced when it is a ValueBlock, and so the params of a ValueBlock;
\* plain objects and arrays stay as they are
RECURSIVE ReplacedInParams(_)
ReplacedInParams(v) ==
    IF IsBlock(v)
    THEN RunOf(v, [k \in DOMAIN GivenTo(v) |-> ReplacedInParams(GivenTo(v)[k])])
    ELSE v

\* v holds a ValueBlock somewhere
RECURSIVE HoldsBlock(_)
HoldsBlock(v) ==
    IF v.kind = "string" THEN FALSE
    ELSE IF v.kind = "array" THEN \E i \in 1..Len(v.items) : HoldsBlock(v.items[i])
    ELSE IsBlock(v) \/ \E k \in DOMAIN v.fields : HoldsBlock(v.fields[k])

InitUnregistered ==
    /\ Constructed
    /\ limits = Limits(MaxUnregisteredCalls, MaxUnregisteredTicks, MaxUnregisteredEvents, 0, TRUE)

\* the host runs a list with an event of an unknown type, with or without
\* options.duration, and ticks the clock; it never cancels
NextUnregistered ==
    \/ \E events \in {<<Unregistered(1)>>, <<Unregistered(NullDuration)>>,
                       <<Log(FALSE), Unregistered(1)>>} : RunEvents(events)
    \/ SetElapsedTime(DurationScale)
    \/ Engine

SpecUnregistered == InitUnregistered /\ [][NextUnregistered]_vars

\* live event l is of a type that is not registered
OfNoType(l) == l \in DOMAIN liveEvents /\ liveEvents[l].event.name = "unregistered"

\* C21: a live event whose (group, name) is in no registry raises no
\* exception when it is started, its handler is not run, it is not set to
\* "end", and, nobody cancelling it, it stays in the queue of its chain.
C21_UnregisteredStays ==
    /\ [](thrown = <<>>)
    /\ [](\A i \in 1..Len(handlerLog) : handlerLog[i].name # "unregistered")
    /\ [](\A l \in DOMAIN liveEvents : OfNoType(l) => liveEvents[l].nowRunMode # "end")
    /\ [][\A l \in DOMAIN liveEvents :
            (OfNoType(l) /\ Queued(l)) => (l \in DOMAIN liveEvents' /\ Queued(l)')]_vars

(***************************************************************************)
(* Run modes sent to live events that have been finalized                   *)
(***************************************************************************)
\* l was live and is in no queue any more
Finalized(l) ==
    /\ \E i \in 1..Len(handlerLog) : handlerLog[i].liveId = l
    /\ ~Queued(l)

\* the update of an eventDo(mode, l) for a finalized l is queued at i
StaleEventDoAt(i) ==
    LET op == setStatesQueue[i] IN
    /\ op.kind = "runEventsInMode"
    /\ op.a.hasTargets /\ op.a.chainId = Null /\ op.a.upTo = Null
    /\ Len(op.a.targets) = 1
    /\ Finalized(op.a.targets[1])

\* C22: the update of an eventDo(mode, L) for a live event L that has been
\* finalized, its record removed or not, changes nothing: the loop that applies
\* the queue leaves the chains and the live events as the loop without that
\* update does, and the same effect runs are due, so no handler runs for it.
C22_StaleRunModeIgnored ==
    \A i \in 1..Len(setStatesQueue) :
        StaleEventDoAt(i) =>
            LET with == RunQueue(St, setStatesQueue)
                without == RunQueue(St, WithoutOp(setStatesQueue, i))
            IN  /\ with = without
                /\ EffectsDue(St, with, watchers) = EffectsDue(St, without, watchers)

\* an eventDo update is queued for a finalized event whose record is still
\* in the store, in a run mode the record is not in
C22_Witness ==
    \E i \in 1..Len(setStatesQueue) :
        /\ StaleEventDoAt(i)
        /\ setStatesQueue[i].a.targets[1] \in DOMAIN liveEvents
        /\ liveEvents[setStatesQueue[i].a.targets[1]].nowRunMode # setStatesQueue[i].a.runMode

(***************************************************************************)
(* Pausing, suspending and resuming an event with a duration                *)
(***************************************************************************)
InitFreeze ==
    /\ Constructed
    /\ limits = Limits(MaxFreezeCalls, MaxFreezeTicks, MaxFreezeEvents, MaxFreezeSkew, FALSE)

\* the host runs a log event with options.duration 1 and a second log event
\* queued behind it, then pauses, suspends, unpauses, unsuspends and skips the
\* first, which has started by then, in any order; the elapsed time moves by
\* a little or by the whole duration;
\* each call and each tick is made after the frames have settled
NextFreeze ==
    \/ calls = 0 /\ RunEvents(<<Block("log", FALSE, 1, Undefined, Undefined, Null, Null), Log(FALSE)>>)
    \/ /\ calls >= 1 /\ Quiescent
       /\ \E runMode \in {"pause", "unpause", "suspend", "unsuspend", "skip"} :
             EventDo(runMode, LiveIdOf[1])
    \/ Quiescent /\ \E dt \in {1, DurationScale} : SetElapsedTime(dt)
    \/ Quiescent /\ WallClock
    \/ Engine

SpecFreeze == InitFreeze /\ [][NextFreeze]_vars

\* the handler runs of l, as positions in the handler log
RunsOf(l) == {i \in 1..Len(handlerLog) : handlerLog[i].liveId = l}

\* i is the position of the handler run of l made when it was resumed (mode
\* is "unpause" or "unsuspend"), and l has not been paused, suspended or
\* resumed since
LastResume(l, i, mode) ==
    /\ i \in RunsOf(l)
    /\ handlerLog[i].runMode = mode
    /\ \A j \in RunsOf(l) :
            j > i => handlerLog[j].runMode \notin {"pause", "suspend", "unpause", "unsuspend"}

\* C23: once the unpause of a live event with stored goalEndTime G and
\* pauseTime P has completed, at elapsed time E, its stored goalEndTime is
\* E + (G - P); the dispatch as the prior mode has not put G back.
C23_UnpauseGoalEndTime ==
    \A l \in DOMAIN liveEvents : \A i \in 1..Len(handlerLog) :
        (Quiescent /\ LastResume(l, i, "unpause") /\ liveEvents[l].nowRunMode = "start")
        => liveEvents[l].goalEndTime
             = handlerLog[i].elapsedTime + (handlerLog[i].goalEndTime - liveEvents[l].pauseTime)

(***************************************************************************)
(* Several events of one chain finalized in one batch                       *)
(***************************************************************************)
\* the live events of chain c whose finalizeEvent update waits in the queue
PendingFinalizes(c) ==
    {l \in DOMAIN liveEvents : FinalizePending(l) /\ liveEvents[l].chainId = c}

\* C24: when the queue updates of finalizeEvent for two or more live events of
\* one chain are applied in the same batch, the chain's liveEventIds holds
\* none of their ids afterwards, and every other id that was queued is still
\* queued, in the same order.
C24_AllFinalizedRemoved ==
    [][AppliesQueue =>
        \A c \in DOMAIN chains :
            (Cardinality(PendingFinalizes(c)) >= 2 /\ c \in DOMAIN chains')
            => /\ \A l \in PendingFinalizes(c) : l \notin SeqRange(chains'[c].liveEventIds)
               /\ \A i, j \in 1..Len(chains[c].liveEventIds) :
                    LET a == chains[c].liveEventIds[i]
                        b == chains[c].liveEventIds[j]
                    IN  (i < j /\ {a, b} \cap PendingFinalizes(c) = {})
                        => \E m, n \in 1..Len(chains'[c].liveEventIds) :
                              /\ m < n
                              /\ chains'[c].liveEventIds[m] = a
                              /\ chains'[c].liveEventIds[n] = b]_vars

\* two live events of one chain have had their final run in the same frame,
\* their queue updates are applied, both are still in the store, and the
\* chain lives on without them
C24_Witness ==
    \E l1, l2 \in DOMAIN liveEvents :
        /\ l1 # l2
        /\ liveEvents[l1].chainId = liveEvents[l2].chainId
        /\ liveEvents[l1].chainId \in DOMAIN chains
        /\ chains[liveEvents[l1].chainId].liveEventIds # <<>>
        /\ \A l \in {l1, l2} :
              /\ liveEvents[l].nowRunMode \in {"end", "cancel"}
              /\ FinalRun(l)
              /\ ~FinalizePending(l)
              /\ ~Queued(l)

(***************************************************************************)
(* The effect on the elapsed time                                           *)
(***************************************************************************)
\* the queued updates that set the run mode of l to "end"
EndUpdates(q, l) ==
    {i \in 1..Len(q) :
        /\ q[i].kind = "setLive" /\ q[i].id = l
        /\ "nowRunMode" \in DOMAIN q[i].a
        /\ q[i].a.nowRunMode = "end"}

\* C25: an update setting nowRunMode to "end" is queued only for a live event
\* that, in the state observed, is not in add, pause, suspend, end, cancel or
\* skip, has a startTime, and whose goalEndTime the elapsed time has reached.
C25_EndOnlyWhenDue ==
    [][\A l \in AllLiveIds :
         Cardinality(EndUpdates(setStatesQueue', l)) > Cardinality(EndUpdates(setStatesQueue, l))
         => /\ l \in DOMAIN liveEvents
            /\ liveEvents[l].nowRunMode \notin {"add", "pause", "suspend", "end", "cancel", "skip"}
            /\ liveEvents[l].startTime # NullTime
            /\ elapsedTime >= liveEvents[l].goalEndTime]_vars

\* the effect has queued "end" for an event that was suspended on its way,
\* while the event queued behind it, watched and with its goalEndTime
\* reached, is in "add" and gets no update
C25_Witness ==
    \E l, w \in DOMAIN liveEvents :
        /\ EndUpdates(setStatesQueue, l) # {}
        /\ \E i \in RunsOf(l) : handlerLog[i].runMode = "suspend"
        /\ w \in watchers
        /\ liveEvents[w].nowRunMode = "add"
        /\ elapsedTime >= liveEvents[w].goalEndTime
        /\ EndUpdates(setStatesQueue, w) = {}

(***************************************************************************)
(* getActiveEventIds on queues of every shape                               *)
(***************************************************************************)
\* what an entry of the queue can refer to: no live event, or a live event
\* that is parallel or not, waiting in "add" or past it
ActiveSlots ==
    {s \in [isParallel : BOOLEAN, nowRunMode : {"missing", "add", "start", "pause"}] :
        s.nowRunMode = "missing" => ~s.isParallel}

\* the default chain with a queue of n live ids, and their live events
ActiveStore(n, slots) ==
    [chains |-> Put(EmptyMap, DefaultChain,
                    Merge(newChainState(DefaultChain, TRUE, Null),
                          [liveEventIds |-> [i \in 1..n |-> LiveIdOf[i]]])),
     liveEvents |->
        [l \in {LiveIdOf[i] : i \in {j \in 1..n : slots[j].nowRunMode # "missing"}} |->
            LET i == CHOOSE j \in 1..n : LiveIdOf[j] = l IN
            Merge(_makeLiveEventStateFromEvent(l, DefaultChain, Null,
                                               Log(slots[i].isParallel), DateBase),
                  [nowRunMode |-> slots[i].nowRunMode,
                   startTime |-> IF slots[i].nowRunMode = "add" THEN NullTime ELSE DateBase])]]

InitActive ==
    /\ \E n \in 0..MaxActiveLen : \E slots \in [1..n -> ActiveSlots] :
          /\ chains = ActiveStore(n, slots).chains
          /\ liveEvents = ActiveStore(n, slots).liveEvents
    /\ elapsedTime = 0
    /\ setStatesQueue = <<>>
    /\ nextTickQueue = <<>>
    /\ microtasks = <<>>
    /\ pendingEffects = <<>>
    /\ watchers = {}
    /\ resolveValueMap = EmptyMap
    /\ promises = <<>>
    /\ handlerLog = <<>>
    /\ thrown = <<>>
    /\ fastChain = NoFastChain
    /\ nextGenId = 0
    /\ nextLiveId = 0
    /\ dateNow = DateBase
    /\ skew = 0
    /\ phase = "idle"
    /\ calls = 0
    /\ ticks = 0
    /\ returned = Null
    /\ variablesByScopesMap = EmptyMap
    /\ givenParams = EmptyMap
    /\ evaluatedParams = <<>>
    /\ limits = Limits(1, 0, MaxActiveLen, 0, TRUE)

\* getActiveEventIds(state, chain.liveEventIds); the result is kept in a 1-tuple
GetActiveEventIds ==
    /\ calls = 0
    /\ calls' = 1
    /\ returned' = <<getActiveEventIds(St, chains[DefaultChain].liveEventIds)>>
    /\ UNCHANGED <<chains, liveEvents, elapsedTime, setStatesQueue, nextTickQueue, microtasks,
                   pendingEffects, watchers, resolveValueMap, promises, handlerLog, thrown, fastChain, nextGenId,
                   nextLiveId, dateNow, skew, phase, ticks, variablesByScopesMap,
                   givenParams, evaluatedParams, limits>>

SpecActive == InitActive /\ [][GetActiveEventIds]_vars

\* the queue given to getActiveEventIds and the entries of it, 1-based
GivenQueue == chains[DefaultChain].liveEventIds
InAdd(i) == GivenQueue[i] \in DOMAIN liveEvents /\ liveEvents[GivenQueue[i]].nowRunMode = "add"
Parallel(i) == GivenQueue[i] \in DOMAIN liveEvents /\ liveEvents[GivenQueue[i]].isParallel
Missing(i) == GivenQueue[i] \notin DOMAIN liveEvents

\* a later entry at which the selection stops: a non-parallel event in "add",
\* or an entry that is missing or holds a parallel event not in "add"
StopsAtNonParallel(i) == i >= 2 /\ ~Missing(i) /\ ~Parallel(i) /\ InAdd(i)
StopsBefore(i) == i >= 2 /\ (Missing(i) \/ (Parallel(i) /\ ~InAdd(i)))
FirstStop(i) ==
    /\ i \in 1..Len(GivenQueue)
    /\ StopsAtNonParallel(i) \/ StopsBefore(i)
    /\ \A j \in 1..(i - 1) : ~(StopsAtNonParallel(j) \/ StopsBefore(j))

\* the parts of the selection rule that do not depend on how a non-parallel
\* event in "add" behind the head is treated
SelectionRule(selected) ==
    LET n == Len(GivenQueue) IN
    /\ (n = 0 \/ (n >= 1 /\ ~InAdd(1))) => selected = <<>>
    /\ (n >= 1 /\ InAdd(1) /\ ~Parallel(1)) => selected = <<GivenQueue[1]>>
    /\ (n >= 1 /\ InAdd(1) /\ Parallel(1)) =>
          /\ \A i \in 1..n : (FirstStop(i) /\ StopsBefore(i)) => selected = SubSeq(GivenQueue, 1, i - 1)
          /\ (\A i \in 1..n : Parallel(i) /\ InAdd(i)) => selected = GivenQueue

\* C26, as stated: if the head is not in "add" nothing is selected; if it is
\* in "add" and non-parallel exactly the head is selected; if it is in "add"
\* and parallel the selection runs up to and including the first later
\* non-parallel event in "add", or up to but excluding the first later entry
\* that is missing or holds a parallel event not in "add", or over the whole
\* queue when every event is parallel and in "add".
C26_SelectsThroughNonParallel ==
    calls = 1 =>
        /\ SelectionRule(returned[1])
        /\ (Len(GivenQueue) >= 1 /\ InAdd(1) /\ Parallel(1)) =>
              \A i \in 1..Len(GivenQueue) :
                  (FirstStop(i) /\ StopsAtNonParallel(i)) => returned[1] = SubSeq(GivenQueue, 1, i)

\* C26, with the non-parallel event left out: behind a parallel head in "add"
\* the selection runs up to but excluding the first later entry that holds a
\* non-parallel event in "add", is missing, or holds a parallel event not in
\* "add"; the other cases are as stated.
C26_SelectsUpToNonParallel ==
    calls = 1 =>
        /\ SelectionRule(returned[1])
        /\ (Len(GivenQueue) >= 1 /\ InAdd(1) /\ Parallel(1)) =>
              \A i \in 1..Len(GivenQueue) :
                  (FirstStop(i) /\ StopsAtNonParallel(i)) => returned[1] = SubSeq(GivenQueue, 1, i - 1)

\* getActiveEventIds has returned the two parallel events in "add" at the head
\* of a queue whose third entry is a non-parallel event in "add"
C26_Witness ==
    /\ calls = 1
    /\ Len(GivenQueue) >= 3
    /\ InAdd(1) /\ Parallel(1) /\ InAdd(2) /\ Parallel(2)
    /\ FirstStop(3) /\ StopsAtNonParallel(3)
    /\ returned[1] = SubSeq(GivenQueue, 1, 2)

(***************************************************************************)
(* "unpause" and "unsuspend" as run modes in passing                        *)
(***************************************************************************)
Resuming == {"unpause", "unsuspend"}

\* no handler run has been given liveInfo.runMode "unpause" or "unsuspend"
HandlersNeverSeeResuming ==
    \A i \in 1..Len(handlerLog) : handlerLog[i].runMode \notin Resuming

\* once the frames have settled no live event is stored in "unpause" or "unsuspend"
ResumingNotStored ==
    Quiescent => \A l \in DOMAIN liveEvents : liveEvents[l].nowRunMode \notin Resuming

\* C27: no handler invocation receives liveInfo.runMode "unpause" or
\* "unsuspend", and no live event's stored nowRunMode is "unpause" or
\* "unsuspend" once the effect run for that transition and the updates it
\* queued are done.
C27_ResumingIsTransient ==
    HandlersNeverSeeResuming /\ ResumingNotStored

(***************************************************************************)
(* Unsuspending an event that was never paused                              *)
(***************************************************************************)
\* the update queued by whenNowRunModeChanges for the "unsuspend" of l
UnsuspendUpdates(l) ==
    {i \in 1..Len(setStatesQueue) :
        /\ setStatesQueue[i].kind = "unfreeze" /\ setStatesQueue[i].id = l
        /\ ~setStatesQueue[i].a.isUnpausing}

\* l is suspended after a "suspend" run of its handler and has never been paused
SuspendedNeverPaused(l) ==
    /\ l \in DOMAIN liveEvents
    /\ liveEvents[l].suspendTime # NullTime
    /\ liveEvents[l].pauseTime = NullTime
    /\ liveEvents[l].runModeBeforeSuspend # Null
    /\ \A i \in RunsOf(l) : handlerLog[i].runMode # "pause"

\* C28: when the updates of the "unsuspend" of an event that was suspended and
\* never paused are applied, goalEndTime is elapsedTime + (goalEndTime -
\* suspendTime), unsuspendTime is set, runModeBeforeSuspend is cleared and the
\* event is in the run mode it had before the suspend; and the handler run
\* made for the resume has liveInfo.isUnsuspending true.
C28_UnsuspendMirrorsUnpause ==
    /\ [][AppliesQueue =>
            \A l \in DOMAIN liveEvents :
                (UnsuspendUpdates(l) # {} /\ SuspendedNeverPaused(l) /\ l \in DOMAIN liveEvents')
                => /\ liveEvents'[l].goalEndTime
                        = elapsedTime + (liveEvents[l].goalEndTime - liveEvents[l].suspendTime)
                   /\ liveEvents'[l].unsuspendTime # NullTime
                   /\ liveEvents'[l].runModeBeforeSuspend = Null
                   /\ liveEvents'[l].nowRunMode = liveEvents[l].runModeBeforeSuspend]_vars
    /\ [][\A l \in DOMAIN liveEvents :
            (UnsuspendUpdates(l) = {} /\ UnsuspendUpdates(l)' # {} /\ SuspendedNeverPaused(l))
            => \E i \in RunsOf(l)' : i > Len(handlerLog) /\ handlerLog'[i].isUnsuspending]_vars

(***************************************************************************)
(* How often the parameters of a live event are evaluated                   *)
(***************************************************************************)
\* the handler runs of l all got the same parameters
SameParamsEveryRun(l) ==
    \A i, j \in RunsOf(l) : handlerLog[i].p = handlerLog[j].p

\* C29: the parameters of a live event are evaluated at most once: the one
\* event with a getEventValue parameter that a behaviour runs makes at most
\* one promise and launches its sub-chain once, and every handler run of a
\* live event gets the same evaluated parameters.
C29_EvaluatedOnce ==
    /\ Len(promises) <= 1
    /\ \A l \in AllLiveIds : SameParamsEveryRun(l)

(***************************************************************************)
(* A sub-chain made while its parent is waiting in "add"                    *)
(***************************************************************************)
\* the live event whose id is the id of chain c is in "add" in the live events le
ParentInAdd(le, c) == c \in DOMAIN le /\ le[c].nowRunMode = "add"

\* C30: a sub-chain that enters the store while its parent live event is in
\* "add" has canAutoActivate false, and as long as the parent is in "add" no
\* event of the sub-chain is in "start".
C30_SubChainWaitsForParent ==
    /\ [][\A c \in DOMAIN chains' \ DOMAIN chains :
            (ParentInAdd(liveEvents, c) /\ ParentInAdd(liveEvents', c))
            => ~chains'[c].canAutoActivate]_vars
    /\ [](\A e \in DOMAIN liveEvents :
            ParentInAdd(liveEvents, liveEvents[e].chainId) => liveEvents[e].nowRunMode # "start")

\* the frames have settled with the parent still in "add": its sub-chain is
\* in the store with canAutoActivate false and its events wait in "add"
C30_Witness ==
    /\ Quiescent
    /\ \E c \in DOMAIN chains :
          /\ ParentInAdd(liveEvents, c)
          /\ ~chains[c].canAutoActivate
          /\ chains[c].liveEventIds # <<>>
          /\ \A i \in 1..Len(chains[c].liveEventIds) :
                /\ chains[c].liveEventIds[i] \in DOMAIN liveEvents
                /\ liveEvents[chains[c].liveEventIds[i]].nowRunMode = "add"

(***************************************************************************)
(* A run mode given to the events of a sub-chain that waits for its parent  *)
(***************************************************************************)
\* the chain that the queued update op of eventDo or chainDo is aimed at
TargetChain(op) ==
    IF op.a.chainId # Null THEN op.a.chainId
    ELSE getChainIdFromLiveEventId(St, op.a.targets[1])

\* C31: when an update of eventDo or chainDo that sets events of a sub-chain
\* with canAutoActivate false to a mode other than "add" is applied, the
\* sub-chain's canAutoActivate is true afterwards.
C31_RunModeLetsSubChainActivate ==
    [][AppliesQueue =>
        \A i \in 1..Len(setStatesQueue) :
            LET op == setStatesQueue[i] IN
            (op.kind = "runEventsInMode" /\ op.a.runMode # "add")
            => LET c == TargetChain(op) IN
               (/\ c \in DOMAIN chains \cap DOMAIN liveEvents
                /\ ~chains[c].canAutoActivate
                /\ chains[c].liveEventIds # <<>>
                /\ c \in DOMAIN chains')
               => chains'[c].canAutoActivate]_vars

(***************************************************************************)
(* The queues of the chains and the chainId of the live events              *)
(***************************************************************************)
\* every id in the queue of a chain names a live event of that chain
QueuesNameOwnEvents ==
    \A c \in DOMAIN chains : \A i \in 1..Len(chains[c].liveEventIds) :
        LET l == chains[c].liveEventIds[i] IN
        l \in DOMAIN liveEvents /\ liveEvents[l].chainId = c

\* every live event that is not being finalized names a chain in the store
LiveEventsNameChains ==
    \A l \in DOMAIN liveEvents :
        liveEvents[l].nowRunMode \notin {"end", "cancel", "skip"}
        => liveEvents[l].chainId \in DOMAIN chains

InitOptions ==
    /\ Constructed
    /\ limits = Limits(MaxOptionsCalls, MaxOptionsTicks, MaxOptionsEvents, 0, FALSE)

\* runEvents(events, { liveId, chainId, parentChainId })
RunEventsWithOptions(events, liveId, chainId, parentChainId) ==
    /\ CanCall
    /\ nextLiveId + Len(events) <= limits.events
    /\ nextLiveId' = nextLiveId + Len(events)
    /\ HostCall(runEvents(St, Env, GiveLiveIds(events, nextLiveId),
                          EventBlockOptions(liveId, chainId, parentChainId, FALSE)))

\* the host runs an event with a duration in the default chain and then runs
\* events with every combination of the liveId of that event, a chainId and a
\* parentChainId, given or left out
NextOptions ==
    \/ calls = 0 /\ RunEvents(<<Block("log", FALSE, 1, Undefined, Undefined, Null, Null)>>)
    \/ /\ calls >= 1 /\ Quiescent
       /\ \E liveId \in {Null, LiveIdOf[1]}, chainId \in {Null, OtherChain},
             parentChainId \in {Null, DefaultChain} :
             RunEventsWithOptions(<<Log(FALSE)>>, liveId, chainId, parentChainId)
    \/ \E dt \in {1, DurationScale} : Quiescent /\ SetElapsedTime(dt)
    \/ Engine

SpecOptions == InitOptions /\ [][NextOptions]_vars

\* C32: in every reachable state every id in a chain's liveEventIds names a
\* live event whose chainId is the id of that chain, and the chainId of every
\* live event that has not been finalized names a chain in the store,
\* whatever chainId, liveId and parentChainId options the events were run with.
C32_QueuesAndChainIdsAgree ==
    QueuesNameOwnEvents /\ LiveEventsNameChains

(***************************************************************************)
(* The entries of resolveValueMap                                           *)
(***************************************************************************)
\* the promises of getEventValue that are not resolved
Outstanding == {k \in 1..Len(promises) : ~promises[k].done}

\* C33: in every reachable state resolveValueMap has an entry for a value id
\* exactly when a getEventValue of that id is started and not resolved: the
\* promise of every entry is outstanding, and while a promise of the one
\* getEventValue parameter of a behaviour is outstanding its entry is there.
C33_EntriesAreOutstanding ==
    /\ \A x \in DOMAIN resolveValueMap : resolveValueMap[x] \in Outstanding
    /\ Outstanding # {} => DOMAIN resolveValueMap # {}

(***************************************************************************)
(* A head event frozen in "add" and resumed                                 *)
(***************************************************************************)
\* l is at the head of the queue of a chain that can auto-activate
HeadOfActiveChain(l) ==
    \E c \in DOMAIN chains :
        /\ chains[c].canAutoActivate
        /\ chains[c].liveEventIds # <<>>
        /\ chains[c].liveEventIds[1] = l

\* l has been paused or suspended and resumed
Unfrozen(l) ==
    /\ \E i \in RunsOf(l) : handlerLog[i].runMode \in {"pause", "suspend"}
    /\ liveEvents[l].nowRunMode \notin {"pause", "suspend", "unpause", "unsuspend"}

\* C34: a chain that can auto-activate is not left with a head event that was
\* frozen, has been resumed and is in "add": when the frames have settled
\* with nothing left to run, such a head event has been set to "start".
C34_ResumedHeadStarts ==
    Quiescent =>
        \A l \in DOMAIN liveEvents :
            (HeadOfActiveChain(l) /\ Unfrozen(l)) => liveEvents[l].nowRunMode # "add"

(***************************************************************************)
(* A skip asked of an event that has started                                *)
(***************************************************************************)
\* C35: a skip asked of a started live event does not stay in
\* runModeOptionsWhenReady: when the frames have settled with nothing left
\* to run, no started live event has a run mode waiting there.
C35_SkipOfStartedEventApplied ==
    Quiescent =>
        \A l \in DOMAIN liveEvents :
            liveEvents[l].startTime # NullTime => liveEvents[l].runModeOptionsWhenReady = Null

\* the handler runs of live event l that have been made so far with runMode
StartRuns(l) == Invocations(l, "start")
EndRuns(l) == Invocations(l, "end")

\* C36: the handler's run for "start" comes before the event is set to "end"
\* and finalized, also when a parameter is still awaited: every "end" run of a
\* live event follows a "start" run of it, a "start" run is never made for an
\* event already in "end", and no handler run is made for a finalized event.
C36_StartRunsBeforeEnd ==
    /\ [](\A l \in AllLiveIds : \A e \in EndRuns(l) : \E s \in StartRuns(l) : s < e)
    /\ [][\A i \in (Len(handlerLog) + 1)..Len(handlerLog') :
            LET r == handlerLog'[i] IN
            /\ r.liveId \in DOMAIN liveEvents /\ Queued(r.liveId)
            /\ r.runMode = "start" => liveEvents[r.liveId].nowRunMode # "end"]_vars

(***************************************************************************)
(* A started event paused, suspended, unsuspended and unpaused             *)
(***************************************************************************)
InitSequence ==
    /\ Constructed
    /\ limits = Limits(MaxSequenceCalls, MaxSequenceTicks, MaxSequenceEvents, MaxSequenceSkew, FALSE)

FreezeSequence == <<"pause", "suspend", "unsuspend", "unpause">>

\* the host runs a log event with options.duration 1 and, once it has
\* started, calls eventDo on it with "pause", "suspend", "unsuspend" and
\* "unpause" in that order, each after the frames have settled; the elapsed
\* time moves a little, never up to the duration
NextSequence ==
    \/ calls = 0 /\ RunEvents(<<Block("log", FALSE, 1, Undefined, Undefined, Null, Null)>>)
    \/ /\ calls \in 1..Len(FreezeSequence) /\ Quiescent
       /\ EventDo(FreezeSequence[calls], LiveIdOf[1])
    \/ Quiescent /\ SetElapsedTime(1)
    \/ Quiescent /\ WallClock
    \/ Engine

SpecSequence == InitSequence /\ [][NextSequence]_vars

\* C37: a started live event that is paused, suspended, unsuspended and
\* unpaused, in that order and with nothing else sent to it, is in "start"
\* again with runModeBeforePause and runModeBeforeSuspend cleared once the
\* frames have settled.
C37_FreezeSequenceRestoresStart ==
    (calls = Len(FreezeSequence) + 1 /\ Quiescent) =>
        /\ LiveIdOf[1] \in DOMAIN liveEvents
        /\ liveEvents[LiveIdOf[1]].nowRunMode = "start"
        /\ liveEvents[LiveIdOf[1]].runModeBeforePause = Null
        /\ liveEvents[LiveIdOf[1]].runModeBeforeSuspend = Null

\* the four calls have been made and their frames have settled: the handler has
\* run for "pause" and for "suspend", and the event is back in "start"
C37_Witness ==
    /\ calls = Len(FreezeSequence) + 1 /\ Quiescent
    /\ Invocations(LiveIdOf[1], "pause") # {}
    /\ Invocations(LiveIdOf[1], "suspend") # {}
    /\ liveEvents[LiveIdOf[1]].nowRunMode = "start"
    /\ liveEvents[LiveIdOf[1]].unpauseTime # NullTime

(***************************************************************************)
(* Run modes sent to all the live events, or to those of a group            *)
(***************************************************************************)
InitAll ==
    /\ Constructed
    /\ limits = Limits(MaxAllCalls, MaxAllTicks, MaxAllEvents, 0, TRUE)

\* the host runs two log events and a wait event, then pauses or cancels all
\* the live events, or those of one group, between any two frames; the clock
\* ticks at any time
NextAll ==
    \/ calls = 0 /\ RunEvents(<<Log(FALSE), Log(FALSE), Wait(WaitDuration)>>)
    \/ calls >= 1 /\ \E runMode \in {"pause", "cancel"} : AllEventsDo(runMode)
    \/ calls >= 1 /\ \E runMode \in {"pause", "cancel"} : \E groupName \in {"logs", "others"} :
          AllGroupEventsDo(groupName, runMode)
    \/ SetElapsedTime(1)
    \/ Engine

SpecAll == InitAll /\ [][NextAll]_vars

\* the update of an allEventsDo or allGroupEventsDo call is queued at i
AllDoAt(i) ==
    /\ setStatesQueue[i].kind = "runEventsInMode"
    /\ setStatesQueue[i].a.ofGroup # Null

\* the store as the update queued at i finds it, and as it leaves it
StoreBefore(i) == RunQueue(St, SubSeq(setStatesQueue, 1, i - 1))
StoreAfter(i) ==
    ApplyOp(StoreBefore(i), setStatesQueue[i], SubSeq(setStatesQueue, i + 1, Len(setStatesQueue)))

\* the live events the update queued at i is aimed at that are in a chain's queue
QueuedTargets(i) ==
    {l \in SeqRange(getLiveIdsForGroup(StoreBefore(i), setStatesQueue[i].a.ofGroup)) :
        getChainIdFromLiveEventId(StoreBefore(i), l) # Null}

\* C38: the update of allEventsDo(mode) and of allGroupEventsDo(group, mode)
\* writes the mode to every targeted live event that is in a chain's queue,
\* also when the store still holds the record of a finalized event.
C38_AllQueuedTargetsGetMode ==
    \A i \in 1..Len(setStatesQueue) :
        AllDoAt(i) =>
            \A l \in QueuedTargets(i) :
                StoreAfter(i).liveEvents[l].nowRunMode = setStatesQueue[i].a.runMode

(***************************************************************************)
(* A parent event whose sub-event is a parent itself                        *)
(***************************************************************************)
InitNested ==
    /\ Constructed
    /\ limits = Limits(MaxNestedCalls, MaxNestedTicks, MaxNestedEvents, 0, FALSE)

\* the host runs a parent event whose handler adds, at its start, a sub-event
\* that is a parent too; once the frames have settled it cancels the first
\* parent, by eventDo or by chainDo on its chain; the clock ticks
NextNested ==
    \/ calls = 0 /\ RunEvents(<<ParentOnStart("nested", NullDuration)>>)
    \/ calls = 1 /\ Quiescent /\ EventDo("cancel", LiveIdOf[1])
    \/ calls = 1 /\ Quiescent /\ ChainDo("cancel", DefaultChain)
    \/ Quiescent /\ SetElapsedTime(1)
    \/ Engine

SpecNested == InitNested /\ [][NextNested]_vars

\* l is queued in the sub-chain of P
ChildOf(l, P) == l \in DOMAIN liveEvents /\ liveEvents[l].chainId = P

\* l is an event of a sub-chain of P, or of a sub-chain of one of those events
DescendsFrom(l, P) ==
    \/ ChildOf(l, P)
    \/ \E Q \in AllLiveIds :
          /\ ChildOf(l, Q)
          /\ \/ ChildOf(Q, P)
             \/ \E i \in 1..Len(handlerLog) : handlerLog[i].liveId = Q /\ handlerLog[i].chainId = P

\* C39: a run mode sent with eventDo or chainDo reaches the events of the
\* sub-chains of its targets at every depth: once a cancelled event has had its
\* "cancel" run and the frames have settled, no event of a sub-chain below it
\* is left in the store in another run mode, and none gets a "start" run.
C39_CancelReachesEveryDepth ==
    /\ [](Quiescent =>
            \A P \in AllLiveIds :
                Cancelled(P) =>
                    \A l \in DOMAIN liveEvents :
                        DescendsFrom(l, P) => liveEvents[l].nowRunMode = "cancel")
    /\ [][\A i \in (Len(handlerLog) + 1)..Len(handlerLog') :
            \A P \in AllLiveIds :
                (Cancelled(P) /\ DescendsFrom(handlerLog'[i].liveId, P))
                => handlerLog'[i].runMode # "start"]_vars

(***************************************************************************)
(* Lists of events run in fast mode                                         *)
(***************************************************************************)
FastPrograms ==
    {<<Log(FALSE), Log(FALSE)>>,
     <<CancelFast, Log(FALSE)>>,
     <<Log(FALSE), CancelFast, Log(FALSE)>>,
     <<ReturnValue(ReturnedValue), Log(FALSE)>>}

InitFast ==
    /\ Constructed
    /\ limits = Limits(MaxFastCalls, MaxFastTicks, MaxFastEvents, 0, TRUE)

\* the host runs lists in fast mode in chain c or d, may run a log event the
\* usual way, and may call cancelFastChain itself; the clock ticks
NextFast ==
    \/ \E events \in FastPrograms : \E chainId \in {DefaultChain, OtherChain} :
          RunEventsFast(events, chainId)
    \/ RunEvents(<<Log(FALSE)>>)
    \/ \E chainId \in {DefaultChain, OtherChain} : CancelFastChain(chainId)
    \/ SetElapsedTime(1)
    \/ Engine

SpecFast == InitFast /\ [][NextFast]_vars

\* the handler runs made in fast mode for chain c, in order
FastRuns(c) ==
    {i \in 1..Len(handlerLog) : handlerLog[i].liveId = UnknownLiveId /\ handlerLog[i].chainId = c}

\* C40: once cancelFastChain has been called for a fast chain, no later event
\* of that chain has its handler run: no run made in fast mode for a chain
\* follows the run of an event of that chain whose handler cancelled the chain.
C40_NoRunAfterFastCancel ==
    \A c \in {DefaultChain, OtherChain} :
        \A i \in FastRuns(c) :
            handlerLog[i].name = "cancelFast" => \A j \in FastRuns(c) : j <= i

=============================================================================
